---- MODULE Spec2Model ----
(***************************************************************************)
(* Write-path admission and caching layer of the bus tracking server:     *)
(* OptimizedBusController -> OptimizedBusService -> OptimizedBus /        *)
(* OptimizedLocation -> PostgreSQL.                                        *)
(*                                                                         *)
(* Every request handler is an async function.  Between two awaits a      *)
(* handler runs without interruption on the event loop; at an await the   *)
(* statement it sent is executed by the database at some later moment and *)
(* the handler resumes at some moment after that.  Each await is two      *)
(* steps here: Db* (the store executes the statement) and *After* (the    *)
(* handler's continuation).  The clock counts seconds; the source counts  *)
(* milliseconds (8000 ms = 8, 30000 ms = 30, 60000 ms = 60).              *)
(***************************************************************************)
EXTENDS Integers, Sequences, FiniteSets, TLC

VARIABLES
  now,              \* Date.now() / NOW(), in seconds
  buses,            \* table buses: rows [id, busNumber, isActive]
  locations,        \* table locations: rows [id, busNumber, latitude, longitude,
                    \* accuracy, timestamp, createdAt]
  activeBuses,      \* cache.activeBuses, the per-bus keys: busNumber -> [isActive, cachedAt]
  allActiveBuses,   \* cache.activeBuses, the key 'all_active_buses': {} or {[data, timestamp]}
  lastUpdated,      \* cache.lastUpdated: busNumber -> time
  recentLocations,  \* cache.recentLocations: busNumber -> location
  tasks,            \* the request handlers in flight, one per slot
  phase,            \* history, per bus: "stopped" once a stop-tracking has completed,
                    \* "restarting" / "restarted" while / once the next request for the
                    \* bus, a start-tracking, runs / has completed, "none" otherwise
                    \* (a request for the bus: start, stop, submit or batch)
  cluster           \* the master process: [ids, workers, started, cron, exits, killed]

vars == <<now, buses, locations, activeBuses, allActiveBuses, lastUpdated,
          recentLocations, tasks, phase, cluster>>

(***************************************************************************)
(* Bounds of the model                                                     *)
(***************************************************************************)
MaxTicks == 2          \* clock ticks, one handler at a time
MaxLocations == 2      \* rows of table locations, one handler at a time
MaxBatch == 1          \* entries of one batch request
ConcTicks == 1         \* clock ticks, two handlers at a time
ConcLocations == 2     \* rows of table locations, two handlers at a time
TickLength == 4        \* seconds per clock tick
ViewStart == 2000      \* the clock when the process starts on a store that has history
ViewTicks == 2         \* clock ticks while the active list is read
ViewTick == 15         \* seconds per clock tick while the active list is read
ArchiveStart == 864000 \* the clock when the history is read and swept (10 days)
MaxSamples == 4        \* rows of table locations when the history is read and swept
MaxPoints == 3         \* the greatest maxPoints of a history request
RetentionTicks == 1    \* clock ticks while sweeps overlap with submissions
RetentionTick == 121   \* seconds per clock tick while sweeps overlap with submissions
RetentionLocations == 2 \* rows of table locations while sweeps overlap with submissions
PoolSize == 1          \* connections of the pool while statements run (max: 15)
IntakeTicks == 2       \* clock ticks while single and batch submissions arrive
IntakeLocations == 2   \* rows of table locations while single and batch submissions arrive
IntakeBatch == 2       \* entries of a batch request chosen entry by entry
WriteLocations == 2    \* rows of table locations while inserts run through executeQuery
PeerTicks == 2         \* clock ticks while the other worker process stops tracking
PeerLocations == 2     \* rows of table locations while the other worker process stops tracking
MaxForks == 4          \* calls of cluster.fork() by the master

Vehicles == {"B1"}
\* every bus number the registry can hold
Fleet == {"B1", "B2"}
Tasks == {"t1", "t2"}

(***************************************************************************)
(* Program constants                                                       *)
(***************************************************************************)
MIN_UPDATE_INTERVAL == 8
ACTIVE_BUSES == 30
RECENT_LOCATIONS == 15
BUS_STATUS == 60
MAX_LATITUDE == 90
MAX_LONGITUDE == 180
MAX_BATCH_SIZE == 50
RECENCY_MINUTES == 30
SECONDS_PER_DAY == 86400
MINUTES_PER_HOUR == 60
RETENTION_DAYS == 7
INACTIVITY_HOURS == 2
DEFAULT_RETRIES == 2
MAX_WORKERS == 2

\* The clock starts late enough for "|| 0" (no entry) to lie far in the past.
StartTime == BUS_STATUS + ACTIVE_BUSES

(***************************************************************************)
(* Values                                                                  *)
(***************************************************************************)
\* A JSON field of a request body: <<>> when absent, <<v>> when it holds v.
Absent == <<>>
Num(v) == <<v>>
Null == <<>>

\* JavaScript !x for a number-or-undefined field: undefined and 0 are falsy.
Falsy(x) == x = Absent \/ x[1] = 0

Abs(n) == IF n < 0 THEN -n ELSE n

\* parseFloat of a present numeric field
parseFloat(x) == x[1]

Put(f, k, v) == [x \in DOMAIN f \cup {k} |-> IF x = k THEN v ELSE f[x]]
Delete(f, k) == [x \in DOMAIN f \ {k} |-> f[x]]

\* A request body is the sequence of its fields latitude, longitude, accuracy and
\* timestamp; the fields it does not reach are absent.
Field(c, i) == IF i <= Len(c) THEN c[i] ELSE Absent

\* loc.accuracy || 0 (OptimizedLocation.create, batchCreate)
OrZero(x) == IF Falsy(x) THEN 0 ELSE x[1]

\* loc.timestamp || new Date().toISOString(): the time the client names, in seconds,
\* or the time of the call
OrTime(x, time) == IF x = Absent THEN time ELSE x[1]

\* The (latitude, longitude) pairs a client sends
CoordInputs ==
  {<<Num(45), Num(100)>>, <<Num(90), Num(-180)>>, <<Num(0), Num(100)>>,
   <<Num(200), Num(100)>>, <<Num(45), Absent>>}

\* The coordinates sent while two handlers run at a time
ConcCoords == {<<Num(45), Num(100)>>}

\* The entries of a batch request: [busNumber, latitude, longitude, accuracy,
\* timestamp]; "" is no bus number
Entry(b, c) ==
  [busNumber |-> b, latitude |-> c[1], longitude |-> c[2],
   accuracy |-> Field(c, 3), timestamp |-> Field(c, 4)]
BatchCoords == {<<Num(45), Num(100)>>, <<Num(0), Num(100)>>, <<Num(200), Num(100)>>}
BatchEntries(C) ==
  {Entry(b, c) : b \in Vehicles, c \in C \cap BatchCoords}
    \cup {Entry("", <<Num(45), Num(100)>>)}
BatchInputs(C) == UNION {[1..n -> BatchEntries(C)] : n \in 0..MaxBatch}

\* A request handler: op and pc say where it is; bus, lat, lon, accuracy and timestamp
\* are the request (n the
\* length of a batch request); ts, arg, batch, res, err belong to the statement in
\* flight; status, out, res are the response; touched, existed, follows and invalid are
\* history.  hours and maxPoints are the history request, daysOld and keepSampleEvery
\* the arguments of the cleanup.  retries, attempts, code and client belong to a call
\* of executeQuery: the retries left, the executions of the statement so far, the
\* code of its last error, the pooled clients the call holds.  array is
\* Array.isArray(req.body.locations) of a batch request.
IdleTask ==
  [op |-> "none", pc |-> "idle", bus |-> "", lat |-> Absent, lon |-> Absent,
   accuracy |-> Absent, timestamp |-> Absent,
   hours |-> 0, maxPoints |-> 0, daysOld |-> 0, keepSampleEvery |-> 0,
   n |-> 0, invalid |-> 0, batch |-> <<>>,
   retries |-> 0, attempts |-> 0, code |-> "", client |-> 0, array |-> TRUE,
   ts |-> 0, arg |-> FALSE, res |-> Null, err |-> FALSE,
   status |-> 0, out |-> "", touched |-> {}, existed |-> FALSE, follows |-> FALSE]

\* errorHandler: an error passed to next() leaves with 500 unless a status was set
errorHandler(statusCode) == IF statusCode = 200 THEN 500 ELSE statusCode

\* A handler that threw: the controller's catch hands the error to errorHandler.
Thrown(tk, kind) ==
  [tk EXCEPT !.pc = "done", !.status = errorHandler(200), !.out = kind,
             !.ts = 0, !.arg = FALSE, !.res = Null, !.err = FALSE, !.batch = <<>>,
             !.follows = FALSE]

\* A handler that answered res.status(code).json(...)
Answered(tk, code, kind) ==
  [tk EXCEPT !.pc = "done", !.status = code, !.out = kind,
             !.ts = 0, !.arg = FALSE, !.err = FALSE, !.batch = <<>>, !.follows = FALSE]

(***************************************************************************)
(* The store                                                               *)
(***************************************************************************)
BusRows(busNumber) == {r \in buses : r.busNumber = busNumber}

\* SELECT * FROM buses WHERE bus_number = $1  -> rows[0] or null
findByBusNumber(busNumber) ==
  IF BusRows(busNumber) = {} THEN Null ELSE CHOOSE r \in BusRows(busNumber) : TRUE

\* buses.bus_number is UNIQUE: a second INSERT of the same number is refused
UniqueViolation(busNumber) == BusRows(busNumber) # {}

InRegistry(busNumber) == BusRows(busNumber) # {}
ActiveInRegistry(busNumber) == \E r \in BusRows(busNumber) : r.isActive

BusLocations(busNumber) == {r \in locations : r.busNumber = busNumber}

\* ORDER BY timestamp DESC LIMIT 1: any row with the greatest timestamp
LatestRows(busNumber) ==
  {r \in BusLocations(busNumber) : \A q \in BusLocations(busNumber) : q.timestamp <= r.timestamp}

Location(r) == [latitude |-> r.latitude, longitude |-> r.longitude, timestamp |-> r.timestamp]

\* The rows getActiveBusesWithRecentActivity can select for one bus:
\* b.is_active = true AND (l.timestamp IS NULL OR l.timestamp >= NOW() - INTERVAL)
ActiveEntries(busNumber) ==
  IF ~ActiveInRegistry(busNumber) THEN {}
  ELSE IF BusLocations(busNumber) = {}
    THEN {[busNumber |-> busNumber, latestLocation |-> Null]}
  ELSE {[busNumber |-> busNumber, latestLocation |-> Location(r)] :
          r \in {q \in LatestRows(busNumber) : q.timestamp >= now - RECENCY_MINUTES * 60}}

\* Mutant: ORDER BY l.timestamp DESC, where PostgreSQL puts the NULLs first
OrderedByTimeNullsFirst(s) ==
  \A i, j \in 1..Len(s) :
     i < j => \/ s[i].latestLocation = Null
              \/ /\ s[j].latestLocation # Null
                 /\ s[i].latestLocation.timestamp >= s[j].latestLocation.timestamp

\* ORDER BY l.timestamp DESC NULLS LAST
OrderedByTime(s) ==
  \A i, j \in 1..Len(s) :
     i < j => \/ s[j].latestLocation = Null
              \/ /\ s[i].latestLocation # Null
                 /\ s[i].latestLocation.timestamp >= s[j].latestLocation.timestamp

\* The results OptimizedBus.getActiveBusesWithRecentActivity(30) can return now
getActiveBusesWithRecentActivity ==
  LET listed == {b \in Fleet : ActiveEntries(b) # {}}
      entries == UNION {ActiveEntries(b) : b \in listed}
  IN {s \in [1..Cardinality(listed) -> entries] :
        /\ \A i, j \in 1..Len(s) : i # j => s[i].busNumber # s[j].busNumber
        /\ OrderedByTime(s)}

(***************************************************************************)
(* The cache                                                               *)
(***************************************************************************)
\* cache.lastUpdated.get(busNumber) || 0
LastUpdate(busNumber) ==
  IF busNumber \in DOMAIN lastUpdated THEN lastUpdated[busNumber] ELSE 0

\* Mutant: the comparison of the rate limit turned around
RateLimitedInverted(busNumber) == now - LastUpdate(busNumber) > MIN_UPDATE_INTERVAL

\* timeSinceLastUpdate < 8000
RateLimited(busNumber) == now - LastUpdate(busNumber) < MIN_UPDATE_INTERVAL

\* !bus || Date.now() - bus.cachedAt > CACHE_TTL.BUS_STATUS
BusStatusMiss(busNumber) ==
  \/ busNumber \notin DOMAIN activeBuses
  \/ now - activeBuses[busNumber].cachedAt > BUS_STATUS

(***************************************************************************)
(* Request validation (express-validator chains of the location route)     *)
(***************************************************************************)
\* notEmpty().isFloat({min, max}): the field is present and within the range
\* (0 is a non-empty value for the validator)
FieldValid(x, max) == x # Absent /\ x[1] >= -max /\ x[1] <= max

\* validationResult(req).isEmpty() for the latitude and longitude chains
ValidationPasses(lat, lon) ==
  FieldValid(lat, MAX_LATITUDE) /\ FieldValid(lon, MAX_LONGITUDE)

\* body('accuracy').optional().isFloat({ min: 0 })
AccuracyValid(x) == x = Absent \/ x[1] >= 0

\* The master after "for (i < numWorkers) cluster.fork()": the workers have the ids
\* 1..numWorkers, none has run its code yet.
\*   ids      the number of calls of cluster.fork(); a worker's id is the number of
\*            the call that made it
\*   workers  cluster.workers: the workers that live
\*   started  the workers that have run the worker branch of the module
\*   cron     the workers that have scheduled the maintenance tasks
\*   exits    the workers that have exited and whose 'exit' event waits for its handler
\*   killed   the workers on which the SIGTERM handler of the master called kill()
Master(numWorkers) ==
  [ids |-> numWorkers, workers |-> 1..numWorkers, started |-> {}, cron |-> {},
   exits |-> {}, killed |-> {}]

Init ==
  /\ now = StartTime
  /\ buses = {}
  /\ locations = {}
  /\ activeBuses = <<>>
  /\ allActiveBuses = {}
  /\ lastUpdated = <<>>
  /\ recentLocations = <<>>
  /\ tasks = [t \in Tasks |-> IdleTask]
  /\ phase = [v \in Fleet |-> "none"]
  /\ cluster = Master(MAX_WORKERS)

(***************************************************************************)
(* Time                                                                    *)
(***************************************************************************)
Tick(maxTicks) ==
  /\ now + TickLength <= StartTime + maxTicks * TickLength
  /\ now' = now + TickLength
  /\ UNCHANGED <<buses, locations, activeBuses, allActiveBuses, lastUpdated,
                 recentLocations, tasks, phase>>
  /\ UNCHANGED cluster

\* The response has been sent; the slot is free for the next request.
Return(t) ==
  /\ tasks[t].pc = "done"
  /\ tasks' = [tasks EXCEPT ![t] = IdleTask]
  /\ UNCHANGED <<now, buses, locations, activeBuses, allActiveBuses, lastUpdated,
                 recentLocations, phase>>
  /\ UNCHANGED cluster

(***************************************************************************)
(* Statements executed by the store                                        *)
(***************************************************************************)
\* OptimizedBus.findByBusNumber, executed
DbFind(t) ==
  /\ tasks[t].pc = "find"
  /\ tasks' = [tasks EXCEPT ![t].pc = "found",
                            ![t].res = findByBusNumber(tasks[t].bus)]
  /\ UNCHANGED <<now, buses, locations, activeBuses, allActiveBuses, lastUpdated,
                 recentLocations, phase>>
  /\ UNCHANGED cluster

\* OptimizedBus.create, executed: INSERT INTO buses ... RETURNING *
DbCreateBus(t) ==
  /\ tasks[t].pc = "createBus"
  /\ IF UniqueViolation(tasks[t].bus)
       THEN /\ tasks' = [tasks EXCEPT ![t].pc = "wroteBus", ![t].err = TRUE]
            /\ UNCHANGED buses
       ELSE LET row == [id |-> Cardinality(buses) + 1, busNumber |-> tasks[t].bus,
                        isActive |-> TRUE]
            IN /\ buses' = buses \cup {row}
               /\ tasks' = [tasks EXCEPT ![t].pc = "wroteBus", ![t].res = row]
  /\ UNCHANGED <<now, locations, activeBuses, allActiveBuses, lastUpdated,
                 recentLocations, phase>>
  /\ UNCHANGED cluster

\* OptimizedBus.updateActiveStatus, executed: UPDATE buses SET is_active = $1 ... RETURNING *
DbUpdateActive(t) ==
  /\ tasks[t].pc = "updateBus"
  /\ buses' = {IF r.busNumber = tasks[t].bus THEN [r EXCEPT !.isActive = tasks[t].arg] ELSE r
                 : r \in buses}
  /\ tasks' = [tasks EXCEPT
       ![t].pc = "wroteBus",
       ![t].res = IF BusRows(tasks[t].bus) = {} THEN Null
                  ELSE [(CHOOSE r \in BusRows(tasks[t].bus) : TRUE)
                          EXCEPT !.isActive = tasks[t].arg]]
  /\ UNCHANGED <<now, locations, activeBuses, allActiveBuses, lastUpdated,
                 recentLocations, phase>>
  /\ UNCHANGED cluster

\* OptimizedLocation.create, executed: INSERT INTO locations ... RETURNING *
\* The statement can fail (executeQuery throws once its retries are used up).
DbCreateLocation(t, maxLocations) ==
  /\ tasks[t].pc = "create"
  /\ \/ /\ Cardinality(locations) < maxLocations
        /\ InRegistry(tasks[t].bus)          \* FOREIGN KEY (bus_number)
        /\ LET row == [id |-> Cardinality(locations) + 1, busNumber |-> tasks[t].bus,
                       latitude |-> parseFloat(tasks[t].lat),
                       longitude |-> parseFloat(tasks[t].lon),
                       accuracy |-> OrZero(tasks[t].accuracy),
                       timestamp |-> OrTime(tasks[t].timestamp, tasks[t].ts),
                       createdAt |-> now]                  \* created_at = NOW()
           IN /\ locations' = locations \cup {row}
              /\ tasks' = [tasks EXCEPT ![t].pc = "created", ![t].res = row]
     \/ /\ tasks' = [tasks EXCEPT ![t].pc = "created", ![t].err = TRUE]
        /\ UNCHANGED locations
  /\ UNCHANGED <<now, buses, activeBuses, allActiveBuses, lastUpdated,
                 recentLocations, phase>>
  /\ UNCHANGED cluster

(***************************************************************************)
(* POST /:busNumber/location                                               *)
(* OptimizedBusController.updateLocation + updateLocationOptimized         *)
(***************************************************************************)
\* bus known (from the cache or from the store): the checks before the insert
SubmitCheckBus(tk, bus) ==
  IF bus = Null THEN Thrown(tk, "notFound")
  ELSE IF ~bus.isActive THEN Thrown(tk, "notTracked")
  ELSE [tk EXCEPT !.pc = "create", !.ts = now]

\* updateLocationOptimized up to its first await
SubmitService(tk) ==
  IF RateLimited(tk.bus) THEN Answered(tk, 200, "rateLimited")
  ELSE IF Falsy(tk.lat) \/ Falsy(tk.lon) THEN Thrown(tk, "required")
  ELSE IF Abs(tk.lat[1]) > MAX_LATITUDE \/ Abs(tk.lon[1]) > MAX_LONGITUDE
    THEN Thrown(tk, "invalidCoordinates")
  ELSE IF BusStatusMiss(tk.bus) THEN [tk EXCEPT !.pc = "find"]
  ELSE SubmitCheckBus(tk, activeBuses[tk.bus])

\* Mutant: the controller does not look at validationResult(req)
SubmitControllerUnvalidated(tk) == SubmitService(tk)

\* OptimizedBusController.updateLocation up to the service's first await
SubmitController(tk) ==
  IF ~ValidationPasses(tk.lat, tk.lon) \/ ~AccuracyValid(tk.accuracy)
    THEN Answered(tk, 400, "validation")
  ELSE SubmitService(tk)

SubmitBegin(t, busNumber, c) ==
  /\ tasks[t].pc = "idle"
  /\ tasks' = [tasks EXCEPT ![t] =
       SubmitController([IdleTask EXCEPT !.op = "submit", !.bus = busNumber,
                                         !.lat = c[1], !.lon = c[2],
                                         !.accuracy = Field(c, 3),
                                         !.timestamp = Field(c, 4)])]
  /\ phase' = [phase EXCEPT ![busNumber] = "none"]
  /\ UNCHANGED <<now, buses, locations, activeBuses, allActiveBuses, lastUpdated,
                 recentLocations>>
  /\ UNCHANGED cluster

\* after "bus = await OptimizedBus.findByBusNumber(busNumber)"
SubmitAfterFind(t) ==
  /\ tasks[t].op = "submit" /\ tasks[t].pc = "found"
  /\ LET bus == tasks[t].res
     IN /\ IF bus # Null
             THEN activeBuses' = Put(activeBuses, tasks[t].bus,
                                     [isActive |-> bus.isActive, cachedAt |-> now])
             ELSE UNCHANGED activeBuses
        /\ tasks' = [tasks EXCEPT ![t] =
             SubmitCheckBus([tasks[t] EXCEPT
                 !.touched = IF bus # Null THEN @ \cup {"activeBuses"} ELSE @], bus)]
  /\ UNCHANGED <<now, buses, locations, allActiveBuses, lastUpdated,
                 recentLocations, phase>>
  /\ UNCHANGED cluster

\* Mutant: the cache is updated although the insert threw
SubmitAfterCreateUnchecked(t) ==
  /\ tasks[t].op = "submit" /\ tasks[t].pc = "created"
  /\ lastUpdated' = Put(lastUpdated, tasks[t].bus, now)
  /\ recentLocations' = Put(recentLocations, tasks[t].bus, tasks[t].res)
  /\ tasks' = [tasks EXCEPT ![t] =
       IF tasks[t].err THEN Thrown(tasks[t], "storage")
       ELSE Answered([tasks[t] EXCEPT
                !.touched = @ \cup {"lastUpdated", "recentLocations"}], 200, "updated")]
  /\ UNCHANGED <<now, buses, locations, activeBuses, allActiveBuses, phase>>
  /\ UNCHANGED cluster

\* after "location = await OptimizedLocation.create(...)"
SubmitAfterCreate(t) ==
  /\ tasks[t].op = "submit" /\ tasks[t].pc = "created"
  /\ IF tasks[t].err
       THEN /\ tasks' = [tasks EXCEPT ![t] = Thrown(tasks[t], "storage")]
            /\ UNCHANGED <<lastUpdated, recentLocations>>
       ELSE /\ lastUpdated' = Put(lastUpdated, tasks[t].bus, now)
            /\ recentLocations' = Put(recentLocations, tasks[t].bus, tasks[t].res)
            /\ tasks' = [tasks EXCEPT ![t] =
                 Answered([tasks[t] EXCEPT
                     !.touched = @ \cup {"lastUpdated", "recentLocations"}], 200, "updated")]
  /\ UNCHANGED <<now, buses, locations, activeBuses, allActiveBuses, phase>>
  /\ UNCHANGED cluster

(***************************************************************************)
(* POST /start-tracking: startTrackingOptimized                            *)
(***************************************************************************)
StartBegin(t, busNumber) ==
  /\ tasks[t].pc = "idle"
  /\ tasks' = [tasks EXCEPT ![t] =
       [IdleTask EXCEPT !.op = "start", !.pc = "find", !.bus = busNumber,
                        !.existed = InRegistry(busNumber),
                        !.follows = (phase[busNumber] = "stopped")]]
  /\ phase' = [phase EXCEPT ![busNumber] =
                 IF @ = "stopped" THEN "restarting" ELSE "none"]
  /\ UNCHANGED <<now, buses, locations, activeBuses, allActiveBuses, lastUpdated,
                 recentLocations>>
  /\ UNCHANGED cluster

\* Mutant: start-tracking creates the bus without looking at what it found
StartAfterFindCreates(t) ==
  /\ tasks[t].op = "start" /\ tasks[t].pc = "found"
  /\ tasks' = [tasks EXCEPT ![t].pc = "createBus"]
  /\ UNCHANGED <<now, buses, locations, activeBuses, allActiveBuses, lastUpdated,
                 recentLocations, phase>>
  /\ UNCHANGED cluster

\* after "bus = await OptimizedBus.findByBusNumber(busNumber)"
StartAfterFind(t) ==
  /\ tasks[t].op = "start" /\ tasks[t].pc = "found"
  /\ tasks' = [tasks EXCEPT ![t] =
       IF tasks[t].res = Null
         THEN [tasks[t] EXCEPT !.pc = "createBus"]
         ELSE [tasks[t] EXCEPT !.pc = "updateBus", !.arg = TRUE]]
  /\ UNCHANGED <<now, buses, locations, activeBuses, allActiveBuses, lastUpdated,
                 recentLocations, phase>>
  /\ UNCHANGED cluster

\* after "await OptimizedBus.create(...)" or "await OptimizedBus.updateActiveStatus(busNumber, true)"
StartAfterWrite(t) ==
  /\ tasks[t].op = "start" /\ tasks[t].pc = "wroteBus"
  /\ IF tasks[t].err \/ tasks[t].res = Null
       THEN /\ tasks' = [tasks EXCEPT ![t] =
                 Thrown(tasks[t], IF tasks[t].err THEN "constraint" ELSE "notFound")]
            /\ phase' = [phase EXCEPT ![tasks[t].bus] =
                           IF tasks[t].follows /\ @ = "restarting" THEN "none" ELSE @]
            /\ UNCHANGED <<activeBuses, allActiveBuses>>
       ELSE /\ activeBuses' = Put(activeBuses, tasks[t].bus,
                                  [isActive |-> tasks[t].res.isActive, cachedAt |-> now])
            /\ allActiveBuses' = {}
            /\ tasks' = [tasks EXCEPT ![t] =
                 Answered([tasks[t] EXCEPT !.touched = {"activeBuses", "allActiveBuses"}],
                          200, "started")]
            /\ phase' = [phase EXCEPT ![tasks[t].bus] =
                           IF tasks[t].follows /\ @ = "restarting" THEN "restarted" ELSE @]
  /\ UNCHANGED <<now, buses, locations, lastUpdated, recentLocations>>
  /\ UNCHANGED cluster

(***************************************************************************)
(* POST /stop-tracking: stopTrackingOptimized                              *)
(***************************************************************************)
StopBegin(t, busNumber) ==
  /\ tasks[t].pc = "idle"
  /\ tasks' = [tasks EXCEPT ![t] =
       [IdleTask EXCEPT !.op = "stop", !.pc = "updateBus", !.bus = busNumber,
                        !.arg = FALSE]]
  /\ phase' = [phase EXCEPT ![busNumber] = "none"]
  /\ UNCHANGED <<now, buses, locations, activeBuses, allActiveBuses, lastUpdated,
                 recentLocations>>
  /\ UNCHANGED cluster

\* after "await OptimizedBus.updateActiveStatus(busNumber, false)"
StopAfterUpdate(t) ==
  /\ tasks[t].op = "stop" /\ tasks[t].pc = "wroteBus"
  /\ IF tasks[t].res = Null
       THEN /\ tasks' = [tasks EXCEPT ![t] = Thrown(tasks[t], "notFound")]
            /\ UNCHANGED <<activeBuses, allActiveBuses, lastUpdated, recentLocations, phase>>
       ELSE /\ activeBuses' = Delete(activeBuses, tasks[t].bus)
            /\ allActiveBuses' = {}
            /\ lastUpdated' = Delete(lastUpdated, tasks[t].bus)
            /\ recentLocations' = Delete(recentLocations, tasks[t].bus)
            /\ tasks' = [tasks EXCEPT ![t] =
                 Answered([tasks[t] EXCEPT
                     !.touched = {"activeBuses", "allActiveBuses", "lastUpdated",
                                  "recentLocations"}], 200, "stopped")]
            /\ phase' = [phase EXCEPT ![tasks[t].bus] = "stopped"]
  /\ UNCHANGED <<now, buses, locations>>
  /\ UNCHANGED cluster

(***************************************************************************)
(* POST /locations/batch                                                   *)
(* OptimizedBusController.batchUpdateLocations + batchUpdateLocations      *)
(***************************************************************************)
\* the filter of batchUpdateLocations: loc.busNumber && loc.latitude && loc.longitude
\* && Math.abs(loc.latitude) <= 90 && Math.abs(loc.longitude) <= 180
BatchEntryValid(loc) ==
  /\ loc.busNumber # ""
  /\ ~Falsy(loc.latitude)
  /\ ~Falsy(loc.longitude)
  /\ Abs(loc.latitude[1]) <= MAX_LATITUDE
  /\ Abs(loc.longitude[1]) <= MAX_LONGITUDE

validLocations(locationUpdates) == SelectSeq(locationUpdates, BatchEntryValid)

\* History: the number of entries of a batch request that the rules of the interface
\* call malformed (no bus number; latitude or longitude missing or out of range)
Malformed(locs) ==
  Cardinality({i \in 1..Len(locs) :
                 locs[i].busNumber = "" \/ ~ValidationPasses(locs[i].latitude, locs[i].longitude)})

\* batchUpdateLocations up to its first await
BatchService(tk, locationUpdates) ==
  IF Len(locationUpdates) = 0
    THEN Answered([tk EXCEPT !.res = [processed |-> 0]], 200, "batch")
  ELSE IF Len(validLocations(locationUpdates)) = 0 THEN Thrown(tk, "noValidLocations")
  ELSE [tk EXCEPT !.pc = "insert", !.batch = validLocations(locationUpdates), !.ts = now]

\* Mutant: the controller does not limit the length of the batch
BatchControllerUnlimited(tk, locs) ==
  IF Len(locs) = 0 THEN Answered(tk, 400, "validation")
  ELSE BatchService(tk, locs)

\* OptimizedBusController.batchUpdateLocations up to the service's first await
BatchController(tk, locs) ==
  IF Len(locs) = 0 THEN Answered(tk, 400, "validation")
  ELSE IF Len(locs) > MAX_BATCH_SIZE THEN Answered(tk, 400, "validation")
  ELSE BatchService(tk, locs)

BatchBegin(t, locs) ==
  /\ tasks[t].pc = "idle"
  /\ tasks' = [tasks EXCEPT ![t] =
       BatchController([IdleTask EXCEPT !.op = "batch", !.n = Len(locs),
                                        !.invalid = Malformed(locs)], locs)]
  /\ phase' = [v \in Fleet |->
                 IF \E i \in 1..Len(locs) : locs[i].busNumber = v THEN "none" ELSE phase[v]]
  /\ UNCHANGED <<now, buses, locations, activeBuses, allActiveBuses, lastUpdated,
                 recentLocations>>
  /\ UNCHANGED cluster

\* OptimizedBusController.batchUpdateLocations when req.body.locations is not an
\* array (missing, an object, a string): !Array.isArray(locations)
BatchControllerNoArray(tk) == Answered(tk, 400, "validation")

BatchBeginNoArray(t) ==
  /\ tasks[t].pc = "idle"
  /\ tasks' = [tasks EXCEPT ![t] =
       BatchControllerNoArray([IdleTask EXCEPT !.op = "batch", !.array = FALSE])]
  /\ UNCHANGED <<now, buses, locations, activeBuses, allActiveBuses, lastUpdated,
                 recentLocations, phase>>
  /\ UNCHANGED cluster

\* OptimizedLocation.batchCreate, executed: one INSERT of all the rows
DbBatchInsert(t, maxLocations) ==
  /\ tasks[t].pc = "insert"
  /\ LET batch == tasks[t].batch
         base == Cardinality(locations)
         rows == {[id |-> base + i, busNumber |-> batch[i].busNumber,
                   latitude |-> parseFloat(batch[i].latitude),
                   longitude |-> parseFloat(batch[i].longitude),
                   accuracy |-> OrZero(batch[i].accuracy),
                   timestamp |-> OrTime(batch[i].timestamp, tasks[t].ts),
                   createdAt |-> tasks[t].ts] : i \in 1..Len(batch)}
     IN \/ /\ base + Len(batch) <= maxLocations
           /\ \A i \in 1..Len(batch) : InRegistry(batch[i].busNumber)  \* FOREIGN KEY
           /\ locations' = locations \cup rows
           /\ tasks' = [tasks EXCEPT ![t].pc = "inserted", ![t].res = rows]
        \/ /\ tasks' = [tasks EXCEPT ![t].pc = "inserted", ![t].err = TRUE]
           /\ UNCHANGED locations
  /\ UNCHANGED <<now, buses, activeBuses, allActiveBuses, lastUpdated,
                 recentLocations, phase>>
  /\ UNCHANGED cluster

\* validLocations.forEach(loc => { cache.lastUpdated.set(...); cache.recentLocations.set(...) })
RECURSIVE BatchCache(_, _, _)
BatchCache(f, batch, value) ==
  IF batch = <<>> THEN f
  ELSE BatchCache(Put(f, Head(batch).busNumber, value[Head(batch)]), Tail(batch), value)

\* after "savedLocations = await OptimizedLocation.batchCreate(validLocations)"
BatchAfterInsert(t) ==
  /\ tasks[t].op = "batch" /\ tasks[t].pc = "inserted"
  /\ IF tasks[t].err
       THEN /\ tasks' = [tasks EXCEPT ![t] = Thrown(tasks[t], "storage")]
            /\ UNCHANGED <<lastUpdated, recentLocations>>
       ELSE LET batch == tasks[t].batch
                entries == {batch[i] : i \in 1..Len(batch)}
            IN /\ lastUpdated' = BatchCache(lastUpdated, batch, [e \in entries |-> now])
               /\ recentLocations' =
                    BatchCache(recentLocations, batch,
                               [e \in entries |->
                                  [latitude |-> e.latitude[1], longitude |-> e.longitude[1],
                                   timestamp |-> now]])
               /\ tasks' = [tasks EXCEPT ![t] =
                    Answered([tasks[t] EXCEPT
                        !.touched = {"lastUpdated", "recentLocations"},
                        !.res = [processed |-> Cardinality(tasks[t].res),
                                 failed |-> tasks[t].n - Len(batch)]],
                      200, "batch")]
  /\ UNCHANGED <<now, buses, locations, activeBuses, allActiveBuses, phase>>
  /\ UNCHANGED cluster

(***************************************************************************)
(* GET /active: getActiveBusesOptimized                                    *)
(***************************************************************************)
\* Mutant: a snapshot of exactly the TTL's age still counts as fresh
SnapshotFreshAtTTL(cached) == now - cached.timestamp <= ACTIVE_BUSES

\* cached && Date.now() - cached.timestamp < CACHE_TTL.ACTIVE_BUSES
SnapshotFresh(cached) == now - cached.timestamp < ACTIVE_BUSES

ListBegin(t) ==
  /\ tasks[t].pc = "idle"
  /\ tasks' = [tasks EXCEPT ![t] =
       IF \E cached \in allActiveBuses : SnapshotFresh(cached)
         THEN Answered([IdleTask EXCEPT
                  !.op = "list",
                  !.res = (CHOOSE cached \in allActiveBuses : TRUE).data], 200, "cached")
         ELSE [IdleTask EXCEPT !.op = "list", !.pc = "query"]]
  /\ UNCHANGED <<now, buses, locations, activeBuses, allActiveBuses, lastUpdated,
                 recentLocations, phase>>
  /\ UNCHANGED cluster

\* OptimizedBus.getActiveBusesWithRecentActivity(30), executed
DbActiveQuery(t) ==
  /\ tasks[t].pc = "query"
  /\ \E rows \in getActiveBusesWithRecentActivity :
       tasks' = [tasks EXCEPT ![t].pc = "queried", ![t].res = rows]
  /\ UNCHANGED <<now, buses, locations, activeBuses, allActiveBuses, lastUpdated,
                 recentLocations, phase>>
  /\ UNCHANGED cluster

\* after "busesWithLocations = await OptimizedBus.getActiveBusesWithRecentActivity(30)"
ListAfterQuery(t) ==
  /\ tasks[t].op = "list" /\ tasks[t].pc = "queried"
  /\ allActiveBuses' = {[data |-> tasks[t].res, timestamp |-> now]}
  /\ tasks' = [tasks EXCEPT ![t] =
       Answered([tasks[t] EXCEPT !.touched = {"allActiveBuses"}], 200, "queried")]
  /\ UNCHANGED <<now, buses, locations, activeBuses, lastUpdated, recentLocations, phase>>
  /\ UNCHANGED cluster

(***************************************************************************)
(* GET /:busNumber/history: getBusHistoryOptimized                         *)
(***************************************************************************)
Min(a, b) == IF a < b THEN a ELSE b

\* Mutant: ORDER BY timestamp ASC
getByBusNumberAscending(busNumber, limit) ==
  LET rows == BusLocations(busNumber)
      n == Min(Cardinality(rows), limit)
  IN {s \in [1..n -> rows] :
        /\ \A i, j \in 1..n : i < j => s[i] # s[j] /\ s[i].timestamp <= s[j].timestamp
        /\ \A r \in rows : (\A i \in 1..n : s[i] # r)
                              => \A i \in 1..n : r.timestamp >= s[i].timestamp}

\* OptimizedLocation.getByBusNumber: SELECT * FROM locations WHERE bus_number = $1
\* ORDER BY timestamp DESC LIMIT $2 -- the results it can return now (rows of one
\* timestamp come in any order)
getByBusNumber(busNumber, limit) ==
  LET rows == BusLocations(busNumber)
      n == Min(Cardinality(rows), limit)
  IN {s \in [1..n -> rows] :
        /\ \A i, j \in 1..n : i < j => s[i] # s[j] /\ s[i].timestamp >= s[j].timestamp
        /\ \A r \in rows : (\A i \in 1..n : s[i] # r)
                              => \A i \in 1..n : r.timestamp <= s[i].timestamp}

\* Mutant: Math.floor in place of Math.ceil
StepFloored(length, maxPoints) == length \div maxPoints

\* Math.ceil(allLocations.length / maxPoints)
Step(length, maxPoints) == (length + maxPoints - 1) \div maxPoints

\* allLocations.filter((_, index) => index % step === 0)
EveryNth(allLocations, step) ==
  [k \in 1..((Len(allLocations) + step - 1) \div step) |-> allLocations[1 + (k - 1) * step]]

\* sampledLocations of getBusHistoryOptimized
Sampled(allLocations, maxPoints) ==
  IF Len(allLocations) > maxPoints
    THEN LET sampledLocations == EveryNth(allLocations, Step(Len(allLocations), maxPoints))
         IN IF Len(allLocations) > 0 /\ sampledLocations[1].id # allLocations[1].id
              THEN <<allLocations[1]>> \o sampledLocations
              ELSE sampledLocations
    ELSE allLocations

HistoryBegin(t, busNumber, hours, maxPoints) ==
  /\ tasks[t].pc = "idle"
  /\ tasks' = [tasks EXCEPT ![t] =
       [IdleTask EXCEPT !.op = "history", !.pc = "find", !.bus = busNumber,
                        !.hours = hours, !.maxPoints = maxPoints]]
  /\ UNCHANGED <<now, buses, locations, activeBuses, allActiveBuses, lastUpdated,
                 recentLocations, phase>>
  /\ UNCHANGED cluster

\* after "bus = await OptimizedBus.findByBusNumber(busNumber)"
HistoryAfterFind(t) ==
  /\ tasks[t].op = "history" /\ tasks[t].pc = "found"
  /\ tasks' = [tasks EXCEPT ![t] =
       IF tasks[t].res = Null THEN Thrown(tasks[t], "notFound")
       ELSE [tasks[t] EXCEPT !.pc = "fetch"]]
  /\ UNCHANGED <<now, buses, locations, activeBuses, allActiveBuses, lastUpdated,
                 recentLocations, phase>>
  /\ UNCHANGED cluster

\* OptimizedLocation.getByBusNumber(busNumber, hours * 60), executed
DbHistoryQuery(t) ==
  /\ tasks[t].pc = "fetch"
  /\ \E allLocations \in getByBusNumber(tasks[t].bus, tasks[t].hours * MINUTES_PER_HOUR) :
       tasks' = [tasks EXCEPT ![t].pc = "fetched", ![t].batch = allLocations]
  /\ UNCHANGED <<now, buses, locations, activeBuses, allActiveBuses, lastUpdated,
                 recentLocations, phase>>
  /\ UNCHANGED cluster

\* after "allLocations = await OptimizedLocation.getByBusNumber(...)"
HistoryAfterQuery(t) ==
  /\ tasks[t].op = "history" /\ tasks[t].pc = "fetched"
  /\ LET allLocations == tasks[t].batch
         sampledLocations == Sampled(allLocations, tasks[t].maxPoints)
     IN tasks' = [tasks EXCEPT ![t] =
          Answered([tasks[t] EXCEPT
              !.res = [bus |-> tasks[t].res,
                       locations |-> sampledLocations,
                       totalLocations |-> Len(allLocations),
                       sampledPoints |-> Len(sampledLocations),
                       timeRange |-> [hours |-> tasks[t].hours,
                                      maxPoints |-> tasks[t].maxPoints]]],
            200, "history")]
  /\ UNCHANGED <<now, buses, locations, activeBuses, allActiveBuses, lastUpdated,
                 recentLocations, phase>>
  /\ UNCHANGED cluster

(***************************************************************************)
(* The cron task / POST /system/cleanup: performScheduledCleanup           *)
(***************************************************************************)
\* WHERE created_at < NOW() - INTERVAL 'daysOld days'
OldLocations(daysOld) ==
  {r \in locations : r.createdAt < now - daysOld * SECONDS_PER_DAY}

\* ROW_NUMBER() OVER (PARTITION BY bus_number ORDER BY timestamp DESC) on rows: the
\* numberings the store can produce (rows of one timestamp are numbered in any order)
RowNumbers(rows) ==
  {rn \in [rows -> 1..Cardinality(rows)] :
     \A r \in rows :
        /\ rn[r] <= Cardinality({q \in rows : q.busNumber = r.busNumber})
        /\ \A q \in rows :
             (q # r /\ q.busNumber = r.busNumber)
             => /\ rn[q] # rn[r]
                /\ q.timestamp > r.timestamp => rn[q] < rn[r]}

\* Mutant: the rows are numbered over the whole table, not over the old rows
DeletedByCleanupOfAll(daysOld, keepSampleEvery) ==
  {{r \in OldLocations(daysOld) : rn[r] % keepSampleEvery # 0} : rn \in RowNumbers(locations)}

\* The sets of rows the DELETE of smartCleanup can remove now: rn % $1 != 0
DeletedByCleanup(daysOld, keepSampleEvery) ==
  {{r \in OldLocations(daysOld) : rn[r] % keepSampleEvery # 0} :
     rn \in RowNumbers(OldLocations(daysOld))}

CleanupBegin(t, daysOld, keepSampleEvery) ==
  /\ tasks[t].pc = "idle"
  /\ tasks' = [tasks EXCEPT ![t] =
       [IdleTask EXCEPT !.op = "cleanup", !.pc = "clean", !.daysOld = daysOld,
                        !.keepSampleEvery = keepSampleEvery]]
  /\ UNCHANGED <<now, buses, locations, activeBuses, allActiveBuses, lastUpdated,
                 recentLocations, phase>>
  /\ UNCHANGED cluster

\* OptimizedLocation.smartCleanup, executed: returns result.rowCount
DbSmartCleanup(t) ==
  /\ tasks[t].pc = "clean"
  /\ \E deleted \in DeletedByCleanup(tasks[t].daysOld, tasks[t].keepSampleEvery) :
       /\ locations' = locations \ deleted
       /\ tasks' = [tasks EXCEPT ![t].pc = "cleaned", ![t].n = Cardinality(deleted)]
  /\ UNCHANGED <<now, buses, activeBuses, allActiveBuses, lastUpdated,
                 recentLocations, phase>>
  /\ UNCHANGED cluster

\* after "deletedCount = await OptimizedLocation.smartCleanup(7, 10)": the bus-status
\* entries older than CACHE_TTL.BUS_STATUS * 2 are deleted (the snapshot entry has no
\* cachedAt and stays)
CleanupAfter(t) ==
  /\ tasks[t].op = "cleanup" /\ tasks[t].pc = "cleaned"
  /\ activeBuses' = [b \in {k \in DOMAIN activeBuses :
                               ~(now - activeBuses[k].cachedAt > BUS_STATUS * 2)}
                       |-> activeBuses[b]]
  /\ tasks' = [tasks EXCEPT ![t] =
       Answered([tasks[t] EXCEPT !.res = [deletedLocations |-> tasks[t].n]],
                200, "cleaned")]
  /\ UNCHANGED <<now, buses, locations, allActiveBuses, lastUpdated, recentLocations,
                 phase>>
  /\ UNCHANGED cluster

(***************************************************************************)
(* optimize-database.js: cleanupOldData(), a script with a connection pool *)
(* of its own; the cache of the server process is out of its reach.        *)
(***************************************************************************)
\* WHERE timestamp < NOW() - INTERVAL '7 days'
OldByTimestamp == {r \in locations : r.timestamp < now - RETENTION_DAYS * SECONDS_PER_DAY}

\* bus_number NOT IN (SELECT DISTINCT bus_number FROM locations
\*                    WHERE timestamp >= NOW() - INTERVAL '2 hours')
Silent(busNumber) ==
  ~\E r \in BusLocations(busNumber) :
      r.timestamp >= now - INACTIVITY_HOURS * MINUTES_PER_HOUR * 60

OldDataBegin(t) ==
  /\ tasks[t].pc = "idle"
  /\ tasks' = [tasks EXCEPT ![t] =
       [IdleTask EXCEPT !.op = "cleanupOldData", !.pc = "deleteOld"]]
  /\ UNCHANGED <<now, buses, locations, activeBuses, allActiveBuses, lastUpdated,
                 recentLocations, phase>>
  /\ UNCHANGED cluster

\* DELETE FROM locations WHERE timestamp < NOW() - INTERVAL '7 days', executed
DbDeleteOld(t) ==
  /\ tasks[t].pc = "deleteOld"
  /\ locations' = locations \ OldByTimestamp
  /\ tasks' = [tasks EXCEPT ![t].pc = "markInactive", ![t].n = Cardinality(OldByTimestamp)]
  /\ UNCHANGED <<now, buses, activeBuses, allActiveBuses, lastUpdated,
                 recentLocations, phase>>
  /\ UNCHANGED cluster

\* UPDATE buses SET is_active = false WHERE is_active = true AND bus_number NOT IN
\* (...), executed; the two VACUUM statements that follow change no row
DbMarkInactive(t) ==
  /\ tasks[t].pc = "markInactive"
  /\ buses' = {IF r.isActive /\ Silent(r.busNumber) THEN [r EXCEPT !.isActive = FALSE]
                                                    ELSE r : r \in buses}
  /\ tasks' = [tasks EXCEPT ![t].pc = "done", ![t].out = "cleanedOldData"]
  /\ UNCHANGED <<now, locations, activeBuses, allActiveBuses, lastUpdated,
                 recentLocations, phase>>
  /\ UNCHANGED cluster

(***************************************************************************)
(* The hourly cron task: OptimizedBusService.clearAllCaches()              *)
(***************************************************************************)
clearAllCaches ==
  /\ activeBuses' = <<>>
  /\ allActiveBuses' = {}
  /\ lastUpdated' = <<>>
  /\ recentLocations' = <<>>
  /\ UNCHANGED <<now, buses, locations, tasks, phase>>
  /\ UNCHANGED cluster

(***************************************************************************)
(* optimizedDatabase.js: executeQuery(text, params, retries = 2)           *)
(***************************************************************************)
\* error.code === 'ECONNRESET' || error.code === 'ETIMEDOUT'
Transient == {"ECONNRESET", "ETIMEDOUT"}

\* The error codes a statement can fail with: the transient ones, a unique violation,
\* a syntax error
ErrorCodes == Transient \cup {"23505", "42601"}

RECURSIVE ClientsHeldBy(_)
ClientsHeldBy(T) ==
  IF T = {} THEN 0
  ELSE LET t == CHOOSE x \in T : TRUE IN tasks[t].client + ClientsHeldBy(T \ {t})

\* The clients of the pool that are checked out
ClientsHeld == ClientsHeldBy(Tasks)

\* executeQuery is called: it asks the pool for a client
QueryBegin(t) ==
  /\ tasks[t].pc = "idle"
  /\ tasks' = [tasks EXCEPT ![t] =
       [IdleTask EXCEPT !.op = "query", !.pc = "connect", !.retries = DEFAULT_RETRIES]]
  /\ UNCHANGED <<now, buses, locations, activeBuses, allActiveBuses, lastUpdated,
                 recentLocations, phase>>
  /\ UNCHANGED cluster

\* "client = await getPool().connect()" resolves: the pool has a free client
PoolConnect(t) ==
  /\ tasks[t].op = "query" /\ tasks[t].pc = "connect"
  /\ ClientsHeld < PoolSize
  /\ tasks' = [tasks EXCEPT ![t].pc = "query", ![t].client = 1]
  /\ UNCHANGED <<now, buses, locations, activeBuses, allActiveBuses, lastUpdated,
                 recentLocations, phase>>
  /\ UNCHANGED cluster

\* Mutant: the acquire is inside the try block, its failure is caught and retried
ConnectFailsRetried(t) ==
  /\ tasks[t].op = "query" /\ tasks[t].pc = "connect"
  /\ tasks' = [tasks EXCEPT ![t] =
       IF tasks[t].retries > 0
         THEN [tasks[t] EXCEPT !.pc = "connect", !.retries = @ - 1, !.code = "ETIMEDOUT"]
         ELSE [tasks[t] EXCEPT !.pc = "done", !.out = "connectError"]]
  /\ UNCHANGED <<now, buses, locations, activeBuses, allActiveBuses, lastUpdated,
                 recentLocations, phase>>
  /\ UNCHANGED cluster

\* "await getPool().connect()" rejects (connectionTimeoutMillis has passed, or the
\* connection could not be made): the await is outside the try block, the error
\* leaves executeQuery
ConnectFails(t) ==
  /\ tasks[t].op = "query" /\ tasks[t].pc = "connect"
  /\ tasks' = [tasks EXCEPT ![t].pc = "done", ![t].out = "connectError"]
  /\ UNCHANGED <<now, buses, locations, activeBuses, allActiveBuses, lastUpdated,
                 recentLocations, phase>>
  /\ UNCHANGED cluster

\* client.query(text, params), executed, for a statement that writes nothing: a
\* result (code "") or an error
DbQuery(t) ==
  /\ tasks[t].op = "query" /\ tasks[t].pc = "query" /\ tasks[t].res = Null
  /\ \E code \in ErrorCodes \cup {""} :
       tasks' = [tasks EXCEPT ![t].pc = "queried", ![t].code = code,
                              ![t].attempts = @ + 1]
  /\ UNCHANGED <<now, buses, locations, activeBuses, allActiveBuses, lastUpdated,
                 recentLocations, phase>>
  /\ UNCHANGED cluster

\* The ids of samples in the store and in the statements in flight
UsedIds ==
  {r.id : r \in locations}
    \cup {tasks[t].res.id : t \in {u \in Tasks : tasks[u].op = "query" /\ tasks[u].res # Null}}

\* uuidv4(): an id no sample has
uuidv4 == CHOOSE i \in 1..(Cardinality(UsedIds) + 1) : i \notin UsedIds

\* OptimizedLocation.create(locationData) up to the request for a client: the values
\* of the INSERT, the id among them, are fixed before executeQuery is called
InsertBegin(t, busNumber) ==
  /\ tasks[t].pc = "idle"
  /\ tasks' = [tasks EXCEPT ![t] =
       [IdleTask EXCEPT !.op = "query", !.pc = "connect", !.retries = DEFAULT_RETRIES,
                        !.bus = busNumber,
                        !.res = [id |-> uuidv4, busNumber |-> busNumber,
                                 latitude |-> 45, longitude |-> 100, accuracy |-> 0,
                                 timestamp |-> now, createdAt |-> now]]]
  /\ UNCHANGED <<now, buses, locations, activeBuses, allActiveBuses, lastUpdated,
                 recentLocations, phase>>
  /\ UNCHANGED cluster

\* Mutant: the store assigns the id (DEFAULT gen_random_uuid()) at every execution
DbInsertFreshId(t, maxLocations) ==
  /\ tasks[t].op = "query" /\ tasks[t].pc = "query" /\ tasks[t].res # Null
  /\ \/ /\ Cardinality(locations) < maxLocations
        /\ InRegistry(tasks[t].bus)
        /\ locations' = locations \cup {[tasks[t].res EXCEPT !.id = Cardinality(locations) + 1]}
        /\ \E code \in Transient \cup {""} :
             tasks' = [tasks EXCEPT ![t].pc = "queried", ![t].code = code,
                                    ![t].attempts = @ + 1, ![t].n = @ + 1]
     \/ /\ UNCHANGED locations
        /\ \E code \in ErrorCodes :
             tasks' = [tasks EXCEPT ![t].pc = "queried", ![t].code = code,
                                    ![t].attempts = @ + 1]
  /\ UNCHANGED <<now, buses, activeBuses, allActiveBuses, lastUpdated,
                 recentLocations, phase>>
  /\ UNCHANGED cluster

\* client.query(INSERT INTO locations (id, ...) VALUES ($1, ...)), executed.  A row
\* with the id is refused by the PRIMARY KEY (23505).  Otherwise the row is written
\* and the result arrives, or the row is written and the connection breaks before
\* the result arrives, or the statement fails and writes nothing.
DbInsert(t, maxLocations) ==
  /\ tasks[t].op = "query" /\ tasks[t].pc = "query" /\ tasks[t].res # Null
  /\ IF \E r \in locations : r.id = tasks[t].res.id
       THEN /\ UNCHANGED locations
            /\ tasks' = [tasks EXCEPT ![t].pc = "queried", ![t].code = "23505",
                                      ![t].attempts = @ + 1]
       ELSE \/ /\ Cardinality(locations) < maxLocations
               /\ InRegistry(tasks[t].bus)          \* FOREIGN KEY (bus_number)
               /\ locations' = locations \cup {tasks[t].res}
               /\ \E code \in Transient \cup {""} :
                    tasks' = [tasks EXCEPT ![t].pc = "queried", ![t].code = code,
                                           ![t].attempts = @ + 1, ![t].n = @ + 1]
            \/ /\ UNCHANGED locations
               /\ \E code \in ErrorCodes :
                    tasks' = [tasks EXCEPT ![t].pc = "queried", ![t].code = code,
                                           ![t].attempts = @ + 1]
  /\ UNCHANGED <<now, buses, activeBuses, allActiveBuses, lastUpdated,
                 recentLocations, phase>>
  /\ UNCHANGED cluster

\* Mutant: the catch block rethrows without the client being released
QueryAfterLeaks(t) ==
  /\ tasks[t].op = "query" /\ tasks[t].pc = "queried"
  /\ tasks' = [tasks EXCEPT ![t] =
       IF tasks[t].code = ""
         THEN [tasks[t] EXCEPT !.pc = "done", !.out = "result", !.client = 0]
       ELSE IF tasks[t].retries > 0 /\ tasks[t].code \in Transient
         THEN [tasks[t] EXCEPT !.pc = "backoff"]
       ELSE [tasks[t] EXCEPT !.pc = "done", !.out = "error"]]
  /\ UNCHANGED <<now, buses, locations, activeBuses, allActiveBuses, lastUpdated,
                 recentLocations, phase>>
  /\ UNCHANGED cluster

\* Mutant: every error is retried while retries are left
QueryAfterRetriesAll(t) ==
  /\ tasks[t].op = "query" /\ tasks[t].pc = "queried"
  /\ tasks' = [tasks EXCEPT ![t] =
       IF tasks[t].code = ""
         THEN [tasks[t] EXCEPT !.pc = "done", !.out = "result", !.client = 0]
       ELSE IF tasks[t].retries > 0
         THEN [tasks[t] EXCEPT !.pc = "backoff"]
       ELSE [tasks[t] EXCEPT !.pc = "done", !.out = "error", !.client = 0]]
  /\ UNCHANGED <<now, buses, locations, activeBuses, allActiveBuses, lastUpdated,
                 recentLocations, phase>>
  /\ UNCHANGED cluster

\* after "result = await client.query(text, params)": return result, or the catch
\* block; finally releases the client when executeQuery returns or throws
QueryAfter(t) ==
  /\ tasks[t].op = "query" /\ tasks[t].pc = "queried"
  /\ tasks' = [tasks EXCEPT ![t] =
       IF tasks[t].code = ""
         THEN [tasks[t] EXCEPT !.pc = "done", !.out = "result", !.client = 0]
       ELSE IF tasks[t].retries > 0 /\ tasks[t].code \in Transient
         THEN [tasks[t] EXCEPT !.pc = "backoff"]
       ELSE [tasks[t] EXCEPT !.pc = "done", !.out = "error", !.client = 0]]
  /\ UNCHANGED <<now, buses, locations, activeBuses, allActiveBuses, lastUpdated,
                 recentLocations, phase>>
  /\ UNCHANGED cluster

\* Mutant: "return await executeQuery(...)": the client of the outer call is held until
\* the retry has ended
BackoffOverHoldsClient(t) ==
  /\ tasks[t].op = "query" /\ tasks[t].pc = "backoff"
  /\ tasks' = [tasks EXCEPT ![t].pc = "connect", ![t].retries = @ - 1]
  /\ UNCHANGED <<now, buses, locations, activeBuses, allActiveBuses, lastUpdated,
                 recentLocations, phase>>
  /\ UNCHANGED cluster

\* Mutant: the retry is called with the same number of retries
BackoffOverKeepsRetries(t) ==
  /\ tasks[t].op = "query" /\ tasks[t].pc = "backoff"
  /\ tasks' = [tasks EXCEPT ![t].pc = "connect", ![t].client = 0]
  /\ UNCHANGED <<now, buses, locations, activeBuses, allActiveBuses, lastUpdated,
                 recentLocations, phase>>
  /\ UNCHANGED cluster

\* after the 100 ms of "await new Promise(resolve => setTimeout(resolve, 100))":
\* "return executeQuery(text, params, retries - 1)" runs the inner call up to its
\* request for a client and returns its promise; finally releases the client of the
\* outer call
BackoffOver(t) ==
  /\ tasks[t].op = "query" /\ tasks[t].pc = "backoff"
  /\ tasks' = [tasks EXCEPT ![t].pc = "connect", ![t].retries = @ - 1, ![t].client = 0]
  /\ UNCHANGED <<now, buses, locations, activeBuses, allActiveBuses, lastUpdated,
                 recentLocations, phase>>
  /\ UNCHANGED cluster

(***************************************************************************)
(* Specifications                                                          *)
(***************************************************************************)
\* One step of handler t
Handler(t, C, maxLocations) ==
  \/ Return(t)
  \/ DbFind(t)
  \/ DbCreateBus(t)
  \/ DbUpdateActive(t)
  \/ DbCreateLocation(t, maxLocations)
  \/ DbBatchInsert(t, maxLocations)
  \/ DbActiveQuery(t)
  \/ \E b \in Vehicles, c \in C : SubmitBegin(t, b, c)
  \/ SubmitAfterFind(t)
  \/ SubmitAfterCreate(t)
  \/ \E locs \in BatchInputs(C) : BatchBegin(t, locs)
  \/ BatchAfterInsert(t)
  \/ \E b \in Vehicles : StartBegin(t, b)
  \/ StartAfterFind(t)
  \/ StartAfterWrite(t)
  \/ \E b \in Vehicles : StopBegin(t, b)
  \/ StopAfterUpdate(t)
  \/ ListBegin(t)
  \/ ListAfterQuery(t)

\* Requests arrive one after the other: one handler at a time
Next == Tick(MaxTicks) \/ clearAllCaches \/ Handler("t1", CoordInputs, MaxLocations)

Spec == Init /\ [][Next]_vars

\* Location submissions overlap with one another and with start / stop tracking:
\* two handlers at a time
Tracking(t, C, maxLocations) ==
  \/ Return(t)
  \/ DbFind(t)
  \/ DbCreateBus(t)
  \/ DbUpdateActive(t)
  \/ DbCreateLocation(t, maxLocations)
  \/ \E b \in Vehicles, c \in C : SubmitBegin(t, b, c)
  \/ SubmitAfterFind(t)
  \/ SubmitAfterCreate(t)
  \/ \E b \in Vehicles : StartBegin(t, b)
  \/ StartAfterFind(t)
  \/ StartAfterWrite(t)
  \/ \E b \in Vehicles : StopBegin(t, b)
  \/ StopAfterUpdate(t)

NextConc ==
  \/ Tick(ConcTicks)
  \/ clearAllCaches
  \/ \E t \in Tasks : Tracking(t, ConcCoords, ConcLocations)

SpecConc == Init /\ [][NextConc]_vars

(***************************************************************************)
(* The active list read while tracking starts and stops.  The process      *)
(* starts with an empty cache on a store that holds what earlier runs      *)
(* left: the cache is process memory, the tables are not.                  *)
(***************************************************************************)
BusRow(i, b) == [id |-> i, busNumber |-> b, isActive |-> TRUE]

\* The registries the process can start on
ViewRegistries ==
  {{}, {BusRow(1, "B1")}, {BusRow(1, "B2")}, {BusRow(1, "B1"), BusRow(2, "B2")}}

\* The times of the samples in the store: just outside the recency window of the
\* active-list query, inside it and about to leave it, recent
ViewTimes ==
  {ViewStart - RECENCY_MINUTES * 60 - 1, ViewStart - RECENCY_MINUTES * 60 + ViewTick,
   ViewStart - 10}

\* The sample tables the process can start on: at most one sample per bus of the
\* registry
ViewStores(registry) ==
  LET known == {r.busNumber : r \in registry}
      Row(b, ts) == [id |-> IF b = "B1" THEN 1 ELSE 2, busNumber |-> b,
                     latitude |-> 45, longitude |-> 100, accuracy |-> 0,
                     timestamp |-> ts, createdAt |-> ts]
  IN {{Row(b, f[b]) : b \in S} : f \in [known -> ViewTimes], S \in SUBSET known}

InitView ==
  /\ now = ViewStart
  /\ buses \in ViewRegistries
  /\ locations \in ViewStores(buses)
  /\ activeBuses = <<>>
  /\ allActiveBuses = {}
  /\ lastUpdated = <<>>
  /\ recentLocations = <<>>
  /\ tasks = [t \in Tasks |-> IdleTask]
  /\ phase = [v \in Fleet |-> "none"]
  /\ cluster = Master(MAX_WORKERS)

\* Time passes
Elapse(start, seconds, maxTicks) ==
  /\ now + seconds <= start + maxTicks * seconds
  /\ now' = now + seconds
  /\ UNCHANGED <<buses, locations, activeBuses, allActiveBuses, lastUpdated,
                 recentLocations, tasks, phase>>
  /\ UNCHANGED cluster

\* One step of a handler that reads the active list
Listing(t) ==
  \/ Return(t)
  \/ DbActiveQuery(t)
  \/ ListBegin(t)
  \/ ListAfterQuery(t)

\* One step of a handler that starts or stops tracking
Switching(t) ==
  \/ Return(t)
  \/ DbFind(t)
  \/ DbCreateBus(t)
  \/ DbUpdateActive(t)
  \/ \E b \in Fleet : StartBegin(t, b)
  \/ StartAfterFind(t)
  \/ StartAfterWrite(t)
  \/ \E b \in Fleet : StopBegin(t, b)
  \/ StopAfterUpdate(t)

NextView ==
  \/ Elapse(ViewStart, ViewTick, ViewTicks)
  \/ Listing("t1")
  \/ Switching("t2")

SpecView == InitView /\ [][NextView]_vars

(***************************************************************************)
(* The history read and the cleanup run on a store that holds samples of   *)
(* the last ten days; one handler at a time.                               *)
(***************************************************************************)
\* The times of the samples in the store: ten and nine days old, exactly seven days
\* old, ten seconds old
ArchiveTimes ==
  {ArchiveStart - 10 * SECONDS_PER_DAY, ArchiveStart - 9 * SECONDS_PER_DAY,
   ArchiveStart - 7 * SECONDS_PER_DAY, ArchiveStart - 10}

\* The sample tables: rows 1..n inserted in this order, each at its timestamp
ArchiveStores ==
  UNION {{{[id |-> i, busNumber |-> b[i], latitude |-> 45, longitude |-> 100,
            accuracy |-> 0, timestamp |-> ts[i], createdAt |-> ts[i]] : i \in 1..n} :
            b \in [1..n -> Fleet],
            ts \in {f \in [1..n -> ArchiveTimes] : \A i, j \in 1..n : i < j => f[i] <= f[j]}}
         : n \in 0..MaxSamples}

\* The requests: hours of history, and the arguments smartCleanup is called with
\* (performScheduledCleanup passes 7 and 10)
HoursInputs == {1, 24}
CleanupInputs == {<<7, 10>>, <<7, 2>>, <<7, 3>>}

InitArchive ==
  /\ now = ArchiveStart
  /\ buses = {BusRow(1, "B1"), BusRow(2, "B2")}
  /\ locations \in ArchiveStores
  /\ activeBuses = <<>>
  /\ allActiveBuses = {}
  /\ lastUpdated = <<>>
  /\ recentLocations = <<>>
  /\ tasks = [t \in Tasks |-> IdleTask]
  /\ phase = [v \in Fleet |-> "none"]
  /\ cluster = Master(MAX_WORKERS)

Archive(t) ==
  \/ Return(t)
  \/ DbFind(t)
  \/ \E b \in Fleet, hours \in HoursInputs, maxPoints \in 1..MaxPoints :
        HistoryBegin(t, b, hours, maxPoints)
  \/ HistoryAfterFind(t)
  \/ DbHistoryQuery(t)
  \/ HistoryAfterQuery(t)
  \/ \E c \in CleanupInputs : CleanupBegin(t, c[1], c[2])
  \/ DbSmartCleanup(t)
  \/ CleanupAfter(t)

NextArchive == Archive("t1")

SpecArchive == InitArchive /\ [][NextArchive]_vars

(***************************************************************************)
(* Sweeps run while samples arrive: handler t1 submits, t2 sweeps.  The    *)
(* process starts with an empty cache on a store where B1 is tracked.      *)
(***************************************************************************)
\* The bodies sent: no timestamp, and a timestamp of eight days ago
RetentionCoords ==
  {<<Num(45), Num(100)>>,
   <<Num(45), Num(100), Absent, Num(ArchiveStart - 8 * SECONDS_PER_DAY)>>}

RetentionBatches ==
  UNION {[1..n -> {Entry("B1", c) : c \in RetentionCoords}] : n \in 1..MaxBatch}

\* The sample tables the process can start on: no sample, or samples written eight
\* days ago
RetentionStores ==
  LET Old(i) == [id |-> i, busNumber |-> "B1", latitude |-> 45, longitude |-> 100,
                 accuracy |-> 0, timestamp |-> ArchiveStart - 8 * SECONDS_PER_DAY,
                 createdAt |-> ArchiveStart - 8 * SECONDS_PER_DAY]
  IN {{}, {Old(1), Old(2)}}

\* The arguments of smartCleanup: those of performScheduledCleanup, and every 2nd
SweepInputs == {<<7, 10>>, <<7, 2>>}

InitRetention ==
  /\ now = ArchiveStart
  /\ buses = {BusRow(1, "B1")}
  /\ locations \in RetentionStores
  /\ activeBuses = <<>>
  /\ allActiveBuses = {}
  /\ lastUpdated = <<>>
  /\ recentLocations = <<>>
  /\ tasks = [t \in Tasks |-> IdleTask]
  /\ phase = [v \in Fleet |-> "none"]
  /\ cluster = Master(MAX_WORKERS)

\* One step of a handler that submits samples
Submitting(t) ==
  \/ Return(t)
  \/ DbFind(t)
  \/ DbCreateLocation(t, RetentionLocations)
  \/ DbBatchInsert(t, RetentionLocations)
  \/ \E c \in RetentionCoords : SubmitBegin(t, "B1", c)
  \/ SubmitAfterFind(t)
  \/ SubmitAfterCreate(t)
  \/ \E locs \in RetentionBatches : BatchBegin(t, locs)
  \/ BatchAfterInsert(t)

\* One step of a sweep: performScheduledCleanup in the server, cleanupOldData outside
Sweeping(t) ==
  \/ Return(t)
  \/ \E c \in SweepInputs : CleanupBegin(t, c[1], c[2])
  \/ DbSmartCleanup(t)
  \/ CleanupAfter(t)
  \/ OldDataBegin(t)
  \/ DbDeleteOld(t)
  \/ DbMarkInactive(t)

NextRetention ==
  \/ Elapse(ArchiveStart, RetentionTick, RetentionTicks)
  \/ Submitting("t1")
  \/ Sweeping("t2")

SpecRetention == InitRetention /\ [][NextRetention]_vars

(***************************************************************************)
(* Single and batch submissions, one handler at a time.  The process       *)
(* starts with an empty cache on a store where B1 is tracked.              *)
(***************************************************************************)
\* The bodies sent: no accuracy, an accuracy of 3, an accuracy of -5
IntakeCoords ==
  {<<Num(45), Num(100)>>, <<Num(45), Num(100), Num(3)>>, <<Num(45), Num(100), Num(-5)>>}

\* A batch of n entries for B1
Full(n) == [i \in 1..n |-> Entry("B1", <<Num(45), Num(100)>>)]

\* The batches sent: up to IntakeBatch entries chosen one by one, and the batches at
\* and above the limit of the controller
IntakeBatches ==
  UNION {[1..n -> {Entry("B1", c) : c \in IntakeCoords}] : n \in 0..IntakeBatch}
    \cup {Full(MAX_BATCH_SIZE), Full(MAX_BATCH_SIZE + 1)}

InitIntake ==
  /\ now = StartTime
  /\ buses = {BusRow(1, "B1")}
  /\ locations = {}
  /\ activeBuses = <<>>
  /\ allActiveBuses = {}
  /\ lastUpdated = <<>>
  /\ recentLocations = <<>>
  /\ tasks = [t \in Tasks |-> IdleTask]
  /\ phase = [v \in Fleet |-> "none"]
  /\ cluster = Master(MAX_WORKERS)

\* One step of a handler of the two submission routes
Intake(t) ==
  \/ Return(t)
  \/ DbFind(t)
  \/ DbCreateLocation(t, IntakeLocations)
  \/ DbBatchInsert(t, IntakeLocations)
  \/ \E c \in IntakeCoords : SubmitBegin(t, "B1", c)
  \/ SubmitAfterFind(t)
  \/ SubmitAfterCreate(t)
  \/ \E locs \in IntakeBatches : BatchBegin(t, locs)
  \/ BatchBeginNoArray(t)
  \/ BatchAfterInsert(t)

NextIntake == Tick(IntakeTicks) \/ Intake("t1")

SpecIntake == InitIntake /\ [][NextIntake]_vars

(***************************************************************************)
(* Statements run through executeQuery, two calls at a time.               *)
(***************************************************************************)
\* One step of a call of executeQuery
Querying(t) ==
  \/ Return(t)
  \/ QueryBegin(t)
  \/ PoolConnect(t)
  \/ ConnectFails(t)
  \/ DbQuery(t)
  \/ QueryAfter(t)
  \/ BackoffOver(t)

NextQuery == \E t \in Tasks : Querying(t)

SpecQuery == Init /\ [][NextQuery]_vars

\* The pool answers every request for a client (with a client or, after
\* connectionTimeoutMillis, with an error), the store every statement, and the timer
\* of the backoff fires: every call goes on.
SpecQueryFair == SpecQuery /\ \A t \in Tasks : WF_vars(Querying(t))

(***************************************************************************)
(* OptimizedLocation.create through executeQuery, two calls at a time, on  *)
(* a store where B1 is tracked.                                            *)
(***************************************************************************)
Writing(t) ==
  \/ Return(t)
  \/ InsertBegin(t, "B1")
  \/ PoolConnect(t)
  \/ ConnectFails(t)
  \/ DbInsert(t, WriteLocations)
  \/ QueryAfter(t)
  \/ BackoffOver(t)

NextWrite == \E t \in Tasks : Writing(t)

SpecWrite == InitIntake /\ [][NextWrite]_vars

(***************************************************************************)
(* Two worker processes (cluster.fork) share the store; each has a cache   *)
(* of its own.  The variables of the cache are those of this process, whose*)
(* handler t1 takes submissions; of the other process only what it writes  *)
(* to the store is seen.  The store starts with B1 tracked.                *)
(***************************************************************************)
\* stopTrackingOptimized(busNumber) handled by the other process: the UPDATE of
\* updateActiveStatus(busNumber, false) in the shared store; the entries it deletes
\* are those of its own cache
PeerStop(busNumber) ==
  /\ ActiveInRegistry(busNumber)
  /\ buses' = {IF r.busNumber = busNumber THEN [r EXCEPT !.isActive = FALSE] ELSE r
                 : r \in buses}
  /\ UNCHANGED <<now, locations, activeBuses, allActiveBuses, lastUpdated,
                 recentLocations, tasks, phase>>
  /\ UNCHANGED cluster

\* One step of the handler of single submissions in this process
Receiving(t) ==
  \/ Return(t)
  \/ DbFind(t)
  \/ DbCreateLocation(t, PeerLocations)
  \/ \E c \in ConcCoords : SubmitBegin(t, "B1", c)
  \/ SubmitAfterFind(t)
  \/ SubmitAfterCreate(t)

NextPeer == Tick(PeerTicks) \/ PeerStop("B1") \/ Receiving("t1")

SpecPeer == InitIntake /\ [][NextPeer]_vars

(***************************************************************************)
(* The master process and its workers                                      *)
(***************************************************************************)
InitCluster ==
  /\ now = StartTime
  /\ buses = {}
  /\ locations = {}
  /\ activeBuses = <<>>
  /\ allActiveBuses = {}
  /\ lastUpdated = <<>>
  /\ recentLocations = <<>>
  /\ tasks = [t \in Tasks |-> IdleTask]
  /\ phase = [v \in Fleet |-> "none"]
  /\ \E cpus \in 1..MAX_WORKERS : cluster = Master(cpus)  \* Math.min(os.cpus().length, 2)

\* cluster.fork(): the new worker has the next id
fork(c) == [c EXCEPT !.ids = @ + 1, !.workers = @ \cup {c.ids + 1}]

\* A worker runs the worker branch of the module: it schedules the maintenance tasks
\* if (cluster.worker.id === 1) and starts its server
WorkerStart(id) ==
  /\ id \in cluster.workers \ cluster.started
  /\ cluster' = [cluster EXCEPT !.started = @ \cup {id},
                                !.cron = IF id = 1 THEN @ \cup {id} ELSE @]
  /\ UNCHANGED <<now, buses, locations, activeBuses, allActiveBuses, lastUpdated,
                 recentLocations, tasks, phase>>

\* A worker process ends: it crashed, it failed to start (process.exit(1)), or it
\* was killed
WorkerExit(id) ==
  /\ id \in cluster.workers
  /\ cluster' = [cluster EXCEPT !.workers = @ \ {id}, !.started = @ \ {id},
                                !.cron = @ \ {id}, !.exits = @ \cup {id}]
  /\ UNCHANGED <<now, buses, locations, activeBuses, allActiveBuses, lastUpdated,
                 recentLocations, tasks, phase>>

\* cluster.on('exit', (worker, code, signal) => { cluster.fork() })
OnExit(id) ==
  /\ id \in cluster.exits
  /\ cluster.ids < MaxForks
  /\ cluster' = fork([cluster EXCEPT !.exits = @ \ {id}])
  /\ UNCHANGED <<now, buses, locations, activeBuses, allActiveBuses, lastUpdated,
                 recentLocations, tasks, phase>>

\* process.on('SIGTERM') of the master: kill() on every worker of cluster.workers
MasterSigterm ==
  /\ cluster.workers \ cluster.killed # {}
  /\ cluster' = [cluster EXCEPT !.killed = @ \cup cluster.workers]
  /\ UNCHANGED <<now, buses, locations, activeBuses, allActiveBuses, lastUpdated,
                 recentLocations, tasks, phase>>

NextCluster ==
  \/ MasterSigterm
  \/ \E id \in 1..MaxForks : WorkerStart(id) \/ WorkerExit(id) \/ OnExit(id)

SpecCluster == InitCluster /\ [][NextCluster]_vars

(***************************************************************************)
(* Properties                                                              *)
(***************************************************************************)
Done(t, op) == tasks[t].op = op /\ tasks[t].pc = "done"

\* Step: handler t takes up a location submission for bus b
Submits(t, b) ==
  tasks[t].pc = "idle" /\ tasks'[t].op = "submit" /\ tasks'[t].bus = b

\* a coordinate pair inside the ranges of the interface, 0 and the bounds included
InRange(lat, lon) ==
  /\ lat # Absent /\ lon # Absent
  /\ -90 <= lat[1] /\ lat[1] <= 90
  /\ -180 <= lon[1] /\ lon[1] <= 180

CacheUnchanged ==
  UNCHANGED <<activeBuses, allActiveBuses, lastUpdated, recentLocations>>

\* C1: a well-formed single submission for V that arrives less than 8 seconds after
\* lastUpdated[V] is answered 200 with rateLimited = true in the same step, and the
\* step writes no sample and leaves lastUpdated and recentLocations as they were.
C1_RateLimitedSubmitSuppressed ==
  [][\A t \in Tasks, b \in Vehicles :
       ( /\ Submits(t, b)
         /\ InRange(tasks'[t].lat, tasks'[t].lon)
         /\ b \in DOMAIN lastUpdated
         /\ now - lastUpdated[b] < 8 )
       => ( /\ tasks'[t].pc = "done"
            /\ tasks'[t].status = 200
            /\ tasks'[t].out = "rateLimited"
            /\ locations' = locations
            /\ lastUpdated' = lastUpdated
            /\ recentLocations' = recentLocations )]_vars

\* C1 witness: a submission was answered "rate limited" after a sample of its bus had
\* been accepted and written, and the cache still holds the time of that acceptance.
C1_Witness ==
  \E t \in Tasks :
     /\ Done(t, "submit") /\ tasks[t].out = "rateLimited"
     /\ BusLocations(tasks[t].bus) # {}
     /\ tasks[t].bus \in DOMAIN lastUpdated
     /\ now - lastUpdated[tasks[t].bus] < 8

\* C2: the rate-limit check-then-update is atomic for one bus: when the sample of a
\* single submission has been written and its handler is about to record the
\* acceptance, no other acceptance for the bus was recorded in the last 8 seconds
\* (at most one of two overlapping submissions is written).
C2_CheckThenUpdateAtomic ==
  \A t \in Tasks :
     (tasks[t].op = "submit" /\ tasks[t].pc = "created" /\ ~tasks[t].err)
     => ~( /\ tasks[t].bus \in DOMAIN lastUpdated
           /\ now - lastUpdated[tasks[t].bus] < 8 )

\* C3: a single submission with coordinates in range (0 and the bounds included) for
\* a bus that exists and is active is accepted (200, sample written) unless it is
\* rate limited (or the store fails).
C3_InRangeSubmitAccepted ==
  \A t \in Tasks :
     ( /\ Done(t, "submit")
       /\ InRange(tasks[t].lat, tasks[t].lon)
       /\ ActiveInRegistry(tasks[t].bus)
       /\ tasks[t].out \notin {"rateLimited", "storage"} )
     => ( /\ tasks[t].status = 200
          /\ tasks[t].out = "updated"
          /\ \E r \in BusLocations(tasks[t].bus) :
               r.latitude = tasks[t].lat[1] /\ r.longitude = tasks[t].lon[1] )

\* C4: a single submission for a bus that is missing from the registry or inactive
\* there is never answered as a success.
C4_InactiveSubmitRejected ==
  \A t \in Tasks :
     (Done(t, "submit") /\ ~ActiveInRegistry(tasks[t].bus))
     => ( /\ tasks[t].status # 200
          /\ tasks[t].out \in {"validation", "required", "invalidCoordinates",
                               "notFound", "notTracked"} )

\* C5: a single submission whose latitude or longitude is missing or out of range is
\* answered 400 (validation error) in the same step, and the step changes neither the
\* store nor any cache map, whatever the rate-limit window.
C5_MalformedSubmitRejected ==
  [][\A t \in Tasks, b \in Vehicles :
       (Submits(t, b) /\ ~InRange(tasks'[t].lat, tasks'[t].lon))
       => ( /\ tasks'[t].pc = "done"
            /\ tasks'[t].status = 400
            /\ tasks'[t].out = "validation"
            /\ locations' = locations
            /\ buses' = buses
            /\ CacheUnchanged )]_vars

\* C5 witness: a malformed submission was answered 400 inside the rate-limit window
\* of its bus.
C5_Witness ==
  \E t \in Tasks :
     /\ Done(t, "submit") /\ tasks[t].status = 400
     /\ ~InRange(tasks[t].lat, tasks[t].lon)
     /\ tasks[t].bus \in DOMAIN lastUpdated
     /\ now - lastUpdated[tasks[t].bus] < 8

\* C6 as claimed: a single or batch submission whose write failed has changed no
\* entry of any cache map.
C6_FailedWriteTouchesNoCache ==
  \A t \in Tasks :
     (tasks[t].op \in {"submit", "batch"} /\ tasks[t].pc = "done"
        /\ tasks[t].out = "storage")
     => tasks[t].touched = {}

\* C6 amended: a single or batch submission whose write failed is answered with the
\* error (500); the step that handles the failure changes no cache map, and all the
\* call has changed in the cache is, at most, the bus-status entry it stored in
\* activeBuses after its registry lookup.
C6_FailedWriteTouchesOnlyBusStatus ==
  /\ [](\A t \in Tasks :
          (tasks[t].op \in {"submit", "batch"} /\ tasks[t].pc = "done"
             /\ tasks[t].out = "storage")
          => (tasks[t].status = 500 /\ tasks[t].touched \subseteq {"activeBuses"}))
  /\ [][\A t \in Tasks :
          (tasks[t].pc \in {"created", "inserted"} /\ tasks[t].err
             /\ tasks'[t].pc = "done")
          => (tasks'[t].out = "storage" /\ CacheUnchanged)]_vars

\* C6 witness: a single submission whose insert failed after the call had stored the
\* bus-status entry.
C6_Witness ==
  \E t \in Tasks :
     /\ Done(t, "submit") /\ tasks[t].out = "storage"
     /\ tasks[t].touched = {"activeBuses"}
     /\ tasks[t].bus \notin DOMAIN lastUpdated

\* C7: a batch of n entries of which k < n are malformed (no bus number, a coordinate
\* missing or out of range), the others being entries for buses of the registry, is
\* answered 200 with processed = n - k and failed = k (unless the store fails).
C7_BatchCounts ==
  \A t \in Tasks :
     ( /\ Done(t, "batch")
       /\ tasks[t].invalid < tasks[t].n
       /\ tasks[t].out # "storage"
       /\ \A b \in Vehicles : InRegistry(b) )
     => ( /\ tasks[t].status = 200
          /\ tasks[t].res.processed = tasks[t].n - tasks[t].invalid
          /\ tasks[t].res.failed = tasks[t].invalid )

\* C8: the first request for V after a completed stop-tracking is a start-tracking,
\* it has completed, and the next request for V is a well-formed single submission:
\* the submission is not answered "rate limited", however recently a sample of V was
\* accepted.
C8_RestartSubmitAccepted ==
  [][\A t \in Tasks, b \in Vehicles :
       ( /\ Submits(t, b)
         /\ phase[b] = "restarted"
         /\ InRange(tasks'[t].lat, tasks'[t].lon)
         /\ tasks'[t].lat[1] # 0 /\ tasks'[t].lon[1] # 0 )
       => tasks'[t].out # "rateLimited"]_vars

\* C9: the registry never holds two records of one bus number; a start-tracking
\* call for a bus number that had a record when the call came in is answered 200
\* with the active bus, and the registry then holds exactly that one record, active.
C9_StartTrackingIdempotent ==
  /\ \A b \in Vehicles : Cardinality(BusRows(b)) <= 1
  /\ \A t \in Tasks :
       (Done(t, "start") /\ tasks[t].existed)
       => ( /\ tasks[t].status = 200
            /\ tasks[t].out = "started"
            /\ tasks[t].res.isActive
            /\ BusRows(tasks[t].bus) = {tasks[t].res} )

\* C9 witness: a start-tracking call for a bus that already had a record has completed.
C9_Witness ==
  \E t \in Tasks :
     /\ Done(t, "start") /\ tasks[t].existed /\ tasks[t].status = 200
     /\ Cardinality(BusRows(tasks[t].bus)) = 1

\* C10: a listActive() call answered while the last accepted single submission of an
\* active bus V is V's newest sample returns V with that sample as its latestLocation.
C10_ListReflectsSubmission ==
  \A t \in Tasks, b \in Vehicles :
     ( /\ Done(t, "list")
       /\ ActiveInRegistry(b)
       /\ b \in DOMAIN recentLocations
       /\ recentLocations[b] \in LatestRows(b) )
     => \E i \in 1..Len(tasks[t].res) :
          /\ tasks[t].res[i].busNumber = b
          /\ tasks[t].res[i].latestLocation \in {Location(r) : r \in LatestRows(b)}

\* Step: handler t takes up a listActive() call
Lists(t) == tasks[t].pc = "idle" /\ tasks'[t].op = "list"

\* bus b appears in the list rows
Listed(rows, b) == \E i \in 1..Len(rows) : rows[i].busNumber = b

\* rows agrees with the store: no bus twice, every bus listed is active in the
\* registry, and its latestLocation is its newest sample (null when it has none)
ConsistentWithStore(rows) ==
  /\ \A i, j \in 1..Len(rows) : i # j => rows[i].busNumber # rows[j].busNumber
  /\ \A i \in 1..Len(rows) :
       /\ \E r \in buses : r.busNumber = rows[i].busNumber /\ r.isActive
       /\ IF \A r \in locations : r.busNumber # rows[i].busNumber
            THEN rows[i].latestLocation = Null
            ELSE \E r \in locations :
                   /\ r.busNumber = rows[i].busNumber
                   /\ \A q \in locations :
                        q.busNumber = r.busNumber => q.timestamp <= r.timestamp
                   /\ rows[i].latestLocation =
                        [latitude |-> r.latitude, longitude |-> r.longitude,
                         timestamp |-> r.timestamp]

\* C11: a listActive() call answered from the snapshot returns a snapshot younger than
\* 30 seconds; with the snapshot absent or 30 seconds old or older the call queries
\* the store, the query's result agrees with the store at the time of the query, and
\* the call returns that result and replaces the snapshot with it.
C11_SnapshotNeverStale ==
  [][\A t \in Tasks :
       /\ Lists(t) =>
            IF tasks'[t].pc = "done"
              THEN \E cached \in allActiveBuses :
                     /\ now - cached.timestamp < 30
                     /\ tasks'[t].res = cached.data
              ELSE /\ tasks'[t].pc = "query"
                   /\ \A cached \in allActiveBuses : now - cached.timestamp >= 30
       /\ (tasks[t].pc = "query" /\ tasks'[t].pc = "queried")
            => ConsistentWithStore(tasks'[t].res)
       /\ (tasks[t].op = "list" /\ tasks[t].pc = "queried" /\ tasks'[t].pc = "done")
            => /\ tasks'[t].status = 200
               /\ tasks'[t].res = tasks[t].res
               /\ allActiveBuses' = {[data |-> tasks[t].res, timestamp |-> now]}]_vars

\* C11 witness: a listActive() call found a snapshot that had expired and its query
\* is in flight.
C11_Witness ==
  \E t \in Tasks :
     /\ tasks[t].op = "list" /\ tasks[t].pc = "query"
     /\ allActiveBuses # {}
     /\ \A cached \in allActiveBuses : now - cached.timestamp >= 30

\* C12: while the last request for V is a completed stop-tracking, no listActive()
\* call is answered from a snapshot that lists V, and no query of a listActive() call
\* returns V.
C12_StoppedBusNotListed ==
  [][\A t \in Tasks, b \in Fleet :
       phase[b] = "stopped" =>
         /\ (Lists(t) /\ tasks'[t].pc = "done") => ~Listed(tasks'[t].res, b)
         /\ (tasks[t].pc = "query" /\ tasks'[t].pc = "queried")
              => ~Listed(tasks'[t].res, b)]_vars

\* C13: while the last request for V is a completed stop-tracking (no start-tracking
\* and no submission for V has been issued since), a step of a single submission for
\* V that was in flight when the stop ran adds no entry for V to lastUpdated,
\* recentLocations or the per-bus entries of activeBuses.
C13_StopLeavesNoCacheEntry ==
  [][\A t \in Tasks, b \in Fleet :
       ( /\ phase[b] = "stopped"
         /\ tasks[t].op = "submit" /\ tasks[t].bus = b
         /\ tasks'[t] # tasks[t] )
       => /\ b \in DOMAIN lastUpdated' => b \in DOMAIN lastUpdated
          /\ b \in DOMAIN recentLocations' => b \in DOMAIN recentLocations
          /\ b \in DOMAIN activeBuses' => b \in DOMAIN activeBuses]_vars

\* C14: the query behind listActive() returns every bus that is active in the
\* registry; one without a sample inside the 30-minute window has latestLocation null.
C14_QueryListsEveryActiveBus ==
  [][\A t \in Tasks, b \in Fleet :
       ( /\ tasks[t].pc = "query" /\ tasks'[t].pc = "queried"
         /\ \E r \in buses : r.busNumber = b /\ r.isActive )
       => \E i \in 1..Len(tasks'[t].res) :
            /\ tasks'[t].res[i].busNumber = b
            /\ (\A r \in locations :
                   r.busNumber = b => r.timestamp < now - 30 * 60)
                 => tasks'[t].res[i].latestLocation = Null]_vars

\* C15: the list of a listActive() cache miss is ordered by the time of the latest
\* sample, newest first, and every bus without a latest location comes after every
\* bus with one.
C15_ListOrdered ==
  \A t \in Tasks :
     ( /\ tasks[t].op = "list"
       /\ tasks[t].pc = "queried" \/ (tasks[t].pc = "done" /\ tasks[t].out = "queried") )
     => \A i, j \in 1..Len(tasks[t].res) :
          i < j =>
            LET x == tasks[t].res[i].latestLocation
                y == tasks[t].res[j].latestLocation
            IN /\ x = <<>> => y = <<>>
               /\ (x # <<>> /\ y # <<>>) => x.timestamp >= y.timestamp

\* C15 witness: a cache miss returned two buses with latest locations of different
\* times, or one with a latest location and one without.
C15_Witness ==
  \E t \in Tasks :
     /\ Done(t, "list") /\ tasks[t].out = "queried"
     /\ Len(tasks[t].res) = 2
     /\ tasks[t].res[1].latestLocation # <<>>
     /\ \/ tasks[t].res[2].latestLocation = <<>>
        \/ tasks[t].res[1].latestLocation.timestamp > tasks[t].res[2].latestLocation.timestamp

\* Step: the handler of a history call resumes with the fetched samples and answers
HistoryAnswers(t) ==
  tasks[t].op = "history" /\ tasks[t].pc = "fetched" /\ tasks'[t].pc = "done"

\* C16: a history call with maxPoints >= 1 returns at most maxPoints samples; with
\* count <= maxPoints it returns the fetched samples unchanged, and with
\* count > maxPoints it returns every stride-th of them, from the first on, for
\* stride = ceil(count / maxPoints).
C16_HistoryDownsampled ==
  [][\A t \in Tasks :
       HistoryAnswers(t) =>
         LET fetched == tasks[t].batch
             count == Len(fetched)
             maxPoints == tasks[t].maxPoints
             returned == tasks'[t].res.locations
         IN /\ Len(returned) <= maxPoints
            /\ tasks'[t].res.sampledPoints = Len(returned)
            /\ count <= maxPoints => returned = fetched
            /\ count > maxPoints =>
                 \E stride \in 1..count :
                    /\ (stride - 1) * maxPoints < count /\ count <= stride * maxPoints
                    /\ (Len(returned) - 1) * stride < count
                    /\ count <= Len(returned) * stride
                    /\ \A k \in 1..Len(returned) :
                         returned[k] = fetched[1 + (k - 1) * stride]]_vars

\* C16 witness: a history call that fetched more than maxPoints samples returned
\* more than one of them.
C16_Witness ==
  \E t \in Tasks :
     /\ Done(t, "history") /\ tasks[t].status = 200
     /\ tasks[t].res.totalLocations > tasks[t].res.timeRange.maxPoints
     /\ tasks[t].res.sampledPoints >= 2

\* C17: a history call that fetched at least one sample returns a sample whose time
\* is the greatest among those fetched.
C17_HistoryHasLatest ==
  [][\A t \in Tasks :
       (HistoryAnswers(t) /\ Len(tasks[t].batch) >= 1) =>
         \E k \in 1..Len(tasks'[t].res.locations) :
            /\ \E i \in 1..Len(tasks[t].batch) :
                 tasks[t].batch[i] = tasks'[t].res.locations[k]
            /\ \A i \in 1..Len(tasks[t].batch) :
                 tasks[t].batch[i].timestamp <= tasks'[t].res.locations[k].timestamp]_vars

\* C17 witness: a history call was downsampled although the bus has samples of
\* different times, and the newest sample is among those returned.
C17_Witness ==
  \E t \in Tasks :
     /\ Done(t, "history") /\ tasks[t].status = 200
     /\ tasks[t].res.totalLocations > tasks[t].res.sampledPoints
     /\ \E r, q \in BusLocations(tasks[t].bus) : r.timestamp # q.timestamp
     /\ \E k \in 1..Len(tasks[t].res.locations) :
          tasks[t].res.locations[k] \in LatestRows(tasks[t].bus)

\* C18: the samples a history call fetches are exactly the samples of the bus of the
\* last `hours` hours, and the samples it returns are ordered oldest first.
C18_HistoryWindowOldestFirst ==
  [][\A t \in Tasks :
       /\ (tasks[t].op = "history" /\ tasks[t].pc = "fetch" /\ tasks'[t].pc = "fetched")
            => {tasks'[t].batch[i] : i \in 1..Len(tasks'[t].batch)}
                 = {r \in locations : /\ r.busNumber = tasks[t].bus
                                       /\ r.timestamp >= now - tasks[t].hours * 3600}
       /\ HistoryAnswers(t)
            => \A i, j \in 1..Len(tasks'[t].res.locations) :
                 i < j => tasks'[t].res.locations[i].timestamp
                            <= tasks'[t].res.locations[j].timestamp]_vars

\* Step: the store executes the DELETE of a cleanup
Sweeps(t) == tasks[t].pc = "clean" /\ tasks'[t].pc = "cleaned"

\* C19: one cleanup (daysOld, N) keeps, of the c samples of a bus that are older than
\* daysOld days, floor(c / N): those whose rank by time among them (1 = newest) is a
\* multiple of N; it deletes nothing else, and the count it returns is the number
\* of rows deleted.
C19_SweepKeepsEveryNth ==
  [][\A t \in Tasks :
       /\ Sweeps(t) =>
            /\ locations' \subseteq locations
            /\ tasks'[t].n = Cardinality(locations \ locations')
            /\ \A r \in locations \ locations' :
                 r.createdAt < now - tasks[t].daysOld * 86400
            /\ \A b \in Fleet :
                 LET old == {r \in locations :
                               /\ r.busNumber = b
                               /\ r.createdAt < now - tasks[t].daysOld * 86400}
                     kept == old \cap locations'
                     N == tasks[t].keepSampleEvery
                 IN /\ Cardinality(kept) = Cardinality(old) \div N
                    /\ \A r \in kept :
                         \E k \in 1..Cardinality(old) :
                            /\ k % N = 0
                            /\ Cardinality({q \in old : q.timestamp > r.timestamp}) < k
                            /\ k <= Cardinality({q \in old : q.timestamp >= r.timestamp})
       /\ (tasks[t].op = "cleanup" /\ tasks[t].pc = "cleaned" /\ tasks'[t].pc = "done")
            => /\ tasks'[t].res.deletedLocations = tasks[t].n
               /\ locations' = locations]_vars

\* C19 witness: a cleanup has deleted samples of a bus and kept an old one.
C19_Witness ==
  \E t \in Tasks :
     /\ Done(t, "cleanup") /\ tasks[t].res.deletedLocations >= 2
     /\ \E r \in locations : r.createdAt < now - tasks[t].daysOld * 86400

\* C20: when the store has just executed a cleanup (daysOld, N), a second execution
\* of the same cleanup deletes no sample.
C20_SweepIdempotent ==
  \A t \in Tasks :
     (tasks[t].op = "cleanup" /\ tasks[t].pc = "cleaned")
     => DeletedByCleanup(tasks[t].daysOld, tasks[t].keepSampleEvery) = {{}}

\* C21: when the store has just executed a cleanup (daysOld, N), every bus that still
\* has samples older than daysOld days (it had at least N of them before) keeps at
\* least one of them in a further execution of the same cleanup.
C21_SweepKeepsSkeleton ==
  \A t \in Tasks :
     (tasks[t].op = "cleanup" /\ tasks[t].pc = "cleaned")
     => \A b \in Fleet :
          LET old == {r \in OldLocations(tasks[t].daysOld) : r.busNumber = b}
          IN old # {}
             => \A deleted \in DeletedByCleanup(tasks[t].daysOld, tasks[t].keepSampleEvery) :
                   old \ deleted # {}

\* Step: the store executes the DELETE of cleanupOldData
SweepsOldData(t) == tasks[t].pc = "deleteOld" /\ tasks'[t].pc = "markInactive"

\* C22: a sweep that runs while single and batch submissions arrive deletes no
\* sample that was written (created_at) less than the retention days ago, whatever
\* timestamp the client gave it.
C22_SweepSparesYoungSamples ==
  [][\A t \in Tasks :
       /\ Sweeps(t) =>
            \A r \in locations \ locations' :
               r.createdAt < now - tasks[t].daysOld * SECONDS_PER_DAY
       /\ SweepsOldData(t) =>
            \A r \in locations \ locations' :
               r.createdAt < now - RETENTION_DAYS * SECONDS_PER_DAY]_vars

\* Step: a sweep ends (performScheduledCleanup returns, cleanupOldData has run its
\* UPDATE)
SweepEnds(t) ==
  /\ tasks'[t].pc = "done"
  /\ \/ tasks[t].op = "cleanup" /\ tasks[t].pc = "cleaned"
     \/ tasks[t].op = "cleanupOldData" /\ tasks[t].pc = "markInactive"

\* C23: when a sweep ends, every bus that was active with no sample of the last two
\* hours is inactive in the registry and has no entry in activeBuses, lastUpdated,
\* recentLocations or the snapshot of the active list.
C23_SweepRetiresSilentBus ==
  [][\A t \in Tasks :
       SweepEnds(t) =>
         \A b \in Fleet :
            (ActiveInRegistry(b) /\ Silent(b))
            => /\ ~\E r \in buses' : r.busNumber = b /\ r.isActive
               /\ b \notin DOMAIN activeBuses'
               /\ b \notin DOMAIN lastUpdated'
               /\ b \notin DOMAIN recentLocations'
               /\ \A cached \in allActiveBuses' : ~Listed(cached.data, b)]_vars

\* C24: when performScheduledCleanup returns, no recentLocations entry was cached
\* more than 2 x 15 s ago, no snapshot of the active list more than 2 x 30 s ago and
\* no activeBuses entry more than 2 x 60 s ago.  (A recentLocations entry is set and
\* deleted together with the lastUpdated entry of its bus, which holds its time.)
C24_SweepLeavesNoOldCacheEntry ==
  [][\A t \in Tasks :
       (tasks[t].op = "cleanup" /\ tasks[t].pc = "cleaned" /\ tasks'[t].pc = "done")
       => /\ \A b \in DOMAIN recentLocations' :
               now - lastUpdated'[b] <= 2 * RECENT_LOCATIONS
          /\ \A cached \in allActiveBuses' : now - cached.timestamp <= 2 * ACTIVE_BUSES
          /\ \A b \in DOMAIN activeBuses' :
               now - activeBuses'[b].cachedAt <= 2 * BUS_STATUS]_vars

\* Step: the store executes the statement of call t once more
Reexecutes(t) ==
  tasks[t].op = "query" /\ tasks[t].pc = "query" /\ tasks'[t].pc = "queried"
    /\ tasks[t].attempts >= 1

\* C25: executeQuery executes a statement again only after an error with code
\* ECONNRESET or ETIMEDOUT; an execution that fails with any other error is the last
\* one of the call, which hands that error to its caller, so that a statement whose
\* error is not transient has been executed exactly once.
C25_RetryOnlyTransient ==
  [][\A t \in Tasks :
       /\ Reexecutes(t) => tasks[t].code \in Transient
       /\ (tasks[t].op = "query" /\ tasks[t].pc = "queried"
              /\ tasks[t].code \in ErrorCodes \ Transient /\ tasks'[t] # tasks[t])
            => /\ tasks'[t] = [tasks[t] EXCEPT !.pc = "done", !.out = "error", !.client = 0]
               /\ tasks[t].attempts = 1 + DEFAULT_RETRIES - tasks[t].retries]_vars

\* C25 witness: a call has handed a unique violation to its caller after one
\* execution, while the other call is executing its statement again.
C25_Witness ==
  \E t, u \in Tasks :
     /\ Done(t, "query") /\ tasks[t].out = "error" /\ tasks[t].code = "23505"
     /\ tasks[t].attempts = 1
     /\ tasks[u].pc = "queried" /\ tasks[u].attempts = 2

\* C26: a call of executeQuery executes its statement at most 1 + 2 times; it hands a
\* transient error to its caller only when the third execution failed; and every call
\* ends, with a result or an error.
C26_QueryTerminates ==
  /\ [](\A t \in Tasks :
          /\ tasks[t].attempts <= 1 + DEFAULT_RETRIES
          /\ (Done(t, "query") /\ tasks[t].out = "error" /\ tasks[t].code \in Transient)
               => tasks[t].attempts = 1 + DEFAULT_RETRIES)
  /\ \A t \in Tasks :
        (tasks[t].op = "query" /\ tasks[t].pc # "done") ~> Done(t, "query")

\* C26 witness: a call has handed ETIMEDOUT to its caller after three executions.
C26_Witness ==
  \E t \in Tasks :
     /\ Done(t, "query") /\ tasks[t].out = "error" /\ tasks[t].code = "ETIMEDOUT"
     /\ tasks[t].attempts = 3 /\ tasks[t].retries = 0

\* C27: when the request for a client fails, the call ends with that error: no
\* further request for a client, no execution, for the first attempt and for a retry
\* alike; a call that has ended holds no client, and the clients held never exceed
\* the pool.
C27_FailedAcquireNotRetried ==
  /\ [](\A t \in Tasks : tasks[t].pc \in {"idle", "connect", "done"} => tasks[t].client = 0)
  /\ [](ClientsHeld <= PoolSize)
  /\ [][\A t \in Tasks :
          (tasks[t].op = "query" /\ tasks[t].pc = "connect" /\ tasks'[t] # tasks[t])
          => \/ tasks'[t] = [tasks[t] EXCEPT !.pc = "query", !.client = 1]
             \/ tasks'[t] = [tasks[t] EXCEPT !.pc = "done", !.out = "connectError"]]_vars

\* C27 witness: the request for a client made for a retry has failed while the other
\* call holds the only client of the pool.
C27_Witness ==
  \E t, u \in Tasks :
     /\ Done(t, "query") /\ tasks[t].out = "connectError" /\ tasks[t].attempts >= 1
     /\ tasks[u].client = 1 /\ ClientsHeld = PoolSize

\* C28: a step of the store adds at most one sample per bus, and none for a bus
\* whose last accepted sample is less than 8 s old (lastUpdated holds its time: no
\* stop-tracking and no clearing of the cache occur here), whether the sample comes
\* from a single submission or from a batch.
C28_OneSamplePerWindow ==
  [][\A b \in Fleet :
       LET new == {r \in locations' \ locations : r.busNumber = b}
       IN /\ Cardinality(new) <= 1
          /\ new # {} => ~(b \in DOMAIN lastUpdated
                             /\ now - lastUpdated[b] < MIN_UPDATE_INTERVAL)]_vars

\* Step: a batch request arrives at handler t
Batches(t) == tasks[t].pc = "idle" /\ tasks'[t].op = "batch"

\* C29: a batch request whose locations is not an array, is empty or has more than
\* 50 entries is answered 400 by the controller, the service is not called, the
\* store and the cache maps stay as they are; a batch of 1 to 50 entries reaches the
\* service (which goes on to the insert or throws for want of a valid entry).
C29_BatchSizeChecked ==
  [][\A t \in Tasks :
       Batches(t) =>
         IF ~tasks'[t].array \/ tasks'[t].n = 0 \/ tasks'[t].n > 50
           THEN /\ tasks'[t].pc = "done" /\ tasks'[t].status = 400
                /\ tasks'[t].res = Null
                /\ UNCHANGED <<buses, locations>> /\ CacheUnchanged
           ELSE \/ tasks'[t].pc = "insert" /\ tasks'[t].batch # <<>>
                \/ tasks'[t].pc = "done" /\ tasks'[t].out = "noValidLocations"]_vars

\* C29 witness: a batch of 51 entries has been answered 400 and nothing was written.
C29_Witness ==
  \E t \in Tasks :
     /\ Done(t, "batch") /\ tasks[t].n = 51 /\ tasks[t].status = 400
     /\ locations = {}

\* C30: every sample in the store has its latitude in [-90, 90], its longitude in
\* [-180, 180] and an accuracy of at least 0.
C30_StoredSamplesValid ==
  \A r \in locations :
     /\ -90 <= r.latitude /\ r.latitude <= 90
     /\ -180 <= r.longitude /\ r.longitude <= 180
     /\ r.accuracy >= 0

\* C32: a single submission for a bus that is not in the registry is answered 404,
\* one for a bus that is registered but inactive is answered 409; neither gets the
\* 500 of a storage failure.
C32_RejectionStatus ==
  \A t \in Tasks :
     Done(t, "submit")
     => /\ tasks[t].out = "notFound" => tasks[t].status = 404
        /\ tasks[t].out = "notTracked" => tasks[t].status = 409

\* C33: a batch of 1 to 50 entries that are all malformed is answered 200 with
\* processed = 0 and failed = the number of entries; the store and the cache maps stay
\* as they are.
C33_AllInvalidBatchReported ==
  [][\A t \in Tasks :
       (Batches(t) /\ tasks'[t].array /\ tasks'[t].n \in 1..50
          /\ tasks'[t].invalid = tasks'[t].n)
       => /\ tasks'[t].pc = "done" /\ tasks'[t].status = 200
          /\ tasks'[t].res # Null
          /\ tasks'[t].res.processed = 0 /\ tasks'[t].res.failed = tasks'[t].n
          /\ UNCHANGED <<buses, locations>> /\ CacheUnchanged]_vars

\* C34: whenever the store inserts a sample for a bus, the bus is in the registry and
\* active there at that moment.
C34_InsertOnlyForActiveBus ==
  [][\A r \in locations' \ locations : ActiveInRegistry(r.busNumber)]_vars

\* C35: a start-tracking call for a bus that was not registered when it arrived ends
\* with 200, also when another start-tracking call for the bus overlaps with it, and
\* the registry then holds exactly one record of the bus.
C35_ConcurrentStartsSucceed ==
  \A t \in Tasks :
     (Done(t, "start") /\ ~tasks[t].existed)
     => /\ tasks[t].status = 200
        /\ Cardinality(BusRows(tasks[t].bus)) = 1

\* A call of executeQuery for the INSERT of OptimizedLocation.create
Inserting(t) == tasks[t].op = "query" /\ tasks[t].res # Null

\* C36: the insert of one submission adds at most one row, however often executeQuery
\* executes it: the rows with the id of the call are those it has added (n), at most
\* one, and no id is taken by two rows.
C36_InsertAtMostOneRow ==
  /\ \A t \in Tasks :
        Inserting(t) => /\ tasks[t].n <= 1
                        /\ Cardinality({r \in locations : r.id = tasks[t].res.id}) = tasks[t].n
  /\ \A r, q \in locations : r.id = q.id => r = q

\* C36 witness: the statement was executed again after a transient error that came
\* when the row was already written; the call has ended and its row is there once.
C36_Witness ==
  \E t \in Tasks :
     /\ Inserting(t) /\ tasks[t].pc = "done" /\ tasks[t].attempts >= 2
     /\ tasks[t].n = 1 /\ tasks[t].code = "23505"
     /\ Cardinality(locations) = 1

\* C37: a call of executeQuery holds one client while its statement is executed, its
\* outcome handled or its backoff awaited, and none otherwise; each step of a call
\* takes one client from the pool when it held none or gives its one client back;
\* a call that has returned or thrown holds no client.
C37_ClientReleasedOnce ==
  /\ [](\A t \in Tasks :
          tasks[t].op = "query" =>
             tasks[t].client = IF tasks[t].pc \in {"query", "queried", "backoff"} THEN 1 ELSE 0)
  /\ [][\A t \in Tasks :
          (tasks[t].op = "query" /\ tasks'[t].op = "query"
             /\ tasks'[t].client # tasks[t].client)
          => \/ /\ tasks[t].client = 0 /\ tasks'[t].client = 1        \* acquired
                /\ tasks[t].pc = "connect" /\ ClientsHeld < PoolSize
             \/ /\ tasks[t].client = 1 /\ tasks'[t].client = 0        \* released
                /\ tasks[t].pc \in {"queried", "backoff"}]_vars

\* C37 witness: a call has thrown after three executions, each on a client of its
\* own, and holds none.
C37_Witness ==
  \E t \in Tasks :
     /\ Done(t, "query") /\ tasks[t].out = "error" /\ tasks[t].attempts = 3
     /\ tasks[t].client = 0 /\ ClientsHeld = 0

\* C38: the clients of the pool are never all held by calls that wait for a further
\* client: a call that waits for the client of its retry holds none.
C38_NoCircularWait ==
  ~( /\ ClientsHeld = PoolSize
     /\ \A t \in Tasks : tasks[t].client > 0 => tasks[t].pc = "connect" )

\* C38 witness: the pool is exhausted while a call waits for the client of its retry.
C38_Witness ==
  \E t, u \in Tasks :
     /\ tasks[t].op = "query" /\ tasks[t].pc = "connect" /\ tasks[t].attempts >= 1
     /\ tasks[u].client = 1 /\ ClientsHeld = PoolSize

\* C31: once stop-tracking for a vehicle has completed on the other worker process
\* (the store holds the vehicle as inactive), a submission for it that arrives at
\* this process is not accepted from the cache: it is not passed on to the insert
\* of a sample, whatever this process's cache holds for the vehicle.
C31_PeerStopRejectsSubmission ==
  [][\A t \in Tasks :
       (tasks[t].pc = "idle" /\ tasks'[t].op = "submit"
          /\ InRegistry(tasks'[t].bus) /\ ~ActiveInRegistry(tasks'[t].bus))
       => tasks'[t].pc # "create"]_vars

\* C39: the handler of 'exit' forks no replacement for a worker that the SIGTERM
\* handler of the master has killed: when the exit of such a worker is handled, no
\* worker is started.
C39_NoRestartAfterShutdown ==
  [][\A id \in cluster.killed :
       (id \in cluster.exits /\ id \notin cluster'.exits)
       => /\ cluster'.ids = cluster.ids
          /\ cluster'.workers = cluster.workers]_vars

\* C40: at most one live worker has the maintenance tasks scheduled, and when the
\* workers that live have all started and no exit waits for its handler, one of
\* them has the tasks scheduled.
C40_CronOnOneWorker ==
  /\ Cardinality(cluster.cron \cap cluster.workers) <= 1
  /\ (cluster.workers # {} /\ cluster.workers \subseteq cluster.started
        /\ cluster.exits = {})
     => cluster.cron \cap cluster.workers # {}
====
